---- MODULE Spec2Model ----
(***************************************************************************)
(* Reconciliation-and-rollout engine of automated-deploy.                  *)
(*                                                                         *)
(* The repository carries two generations of the engine:                   *)
(*   - src/aws/createResources.js (ensureECR, ensureCluster, ensureRole,   *)
(*     ensureSG, ensureService) with deployToECS/waitForStable, and        *)
(*   - unnamed/part_003 (ensureECRRepository, ensureECSCluster, ...,       *)
(*     createECSService) with deployToECS/waitForDeployment.               *)
(* Both are modelled; monImpl selects the rollout monitor.                 *)
(***************************************************************************)
EXTENDS Integers, Sequences, FiniteSets, TLC

(***************************************************************************)
(* Bounds of the model                                                     *)
(***************************************************************************)
\* largest event id the control plane hands out
MaxEventId == 2
\* most non-PRIMARY deployments (draining revisions) in one service snapshot
MaxOthers == 1
\* largest running / desired count of the PRIMARY deployment
MaxCount == 1

(***************************************************************************)
(* Program constants                                                       *)
(***************************************************************************)
\* waitForStable(..., timeout = 10 * 60 * 1000), waitForDeployment(..., maxWaitTime = 10 * 60 * 1000)
timeout == 10 * 60 * 1000
\* setTimeout(r, 15000) / const pollInterval = 15000
pollInterval == 15000

VARIABLES
    monImpl,          \* which monitor runs: "waitForStable" | "waitForDeployment"
    monState,         \* POLLING | STABLE | FAILED | TIMED_OUT | ERROR (exception of the describe call propagated)
    monPc,            \* position in the poll loop: "loop" | "sleep" | "done"
    clock,            \* Date.now()
    start,            \* const start = Date.now()
    printedEventIds,  \* let printedEventIds = new Set()
    svc,              \* response of the latest DescribeServices call
    seenBefore,       \* printedEventIds as it was when the latest poll began
    infoLog,          \* event ids passed to logger.info / tested against the failure pattern, in order
    monError,         \* message of the Error the monitor threw (token sequence), <<>> if none
    polls,            \* DescribeServices calls issued by the monitor
    sleeps,           \* sleeps started by the monitor
    priorEventIds,    \* ids of the events in the service's event list when the update was issued
    cloud,            \* resources held by the remote control plane
    lastInv,          \* the latest provisioner / reconciler invocation: remote calls issued and outcome
    prevInv,          \* summary of the invocation before lastInv
    inflight,         \* the invocations under way, each suspended at an await: calls answered so far, call awaited
    started,          \* invocations started so far
    atReturn          \* no awaited call was answered since lastInv returned

monVars == <<monImpl, monState, monPc, clock, start, printedEventIds, svc,
             seenBefore, infoLog, monError, polls, sleeps, priorEventIds>>

provVars == <<cloud, lastInv, prevInv, inflight, started, atReturn>>

vars == <<monImpl, monState, monPc, clock, start, printedEventIds, svc,
          seenBefore, infoLog, monError, polls, sleeps, priorEventIds,
          cloud, lastInv, prevInv, inflight, started, atReturn>>

(***************************************************************************)
(* Service snapshots returned by DescribeServices                          *)
(***************************************************************************)
\* Event messages are sequences of words; an event id identifies one event
\* of the service, hence one message.
EventMessage(id) ==
    CASE id = 1 -> <<"has", "started", "1", "tasks">>
      [] id = 2 -> <<"task", "was", "stopped">>
      [] id = 3 -> <<"deployment", "FAILED">>
      [] id = 4 -> <<"was", "Unable", "to", "place", "a", "task">>
      [] OTHER  -> <<"has", "stopped", "1", "running", "tasks">>

EventIds == 1..MaxEventId

Events == {[id |-> i, message |-> EventMessage(i)] : i \in EventIds}

\* the deployment the rollout targets
PrimaryDeployments ==
    [status : {"PRIMARY"}, runningCount : 0..MaxCount, desiredCount : 0..MaxCount]

\* a revision that is being drained
DrainingDeployment == [status |-> "ACTIVE", runningCount |-> 1, desiredCount |-> 0]

Drainings == {[i \in 1..k |-> DrainingDeployment] : k \in 0..MaxOthers}

\* the control plane marks at most one deployment of a service PRIMARY; it
\* is listed before or after the draining ones
DeploymentLists ==
    Drainings
    \cup {<<p>> \o ds : p \in PrimaryDeployments, ds \in Drainings}
    \cup {ds \o <<p>> : p \in PrimaryDeployments, ds \in Drainings}

\* event lists of one snapshot: ids are unique per service, so no id repeats
EventLists ==
    {es \in UNION {[1..k -> Events] : k \in 0..MaxEventId} :
        \A i, j \in DOMAIN es : es[i].id = es[j].id => i = j}

\* a DescribeServices call that threw (or returned no service) has ok = FALSE
NoResponse == [ok |-> FALSE, deployments |-> <<>>, events |-> <<>>]

Snapshots == {[ok |-> TRUE, deployments |-> ds, events |-> es] :
                 ds \in DeploymentLists, es \in EventLists}

Responses == Snapshots \cup {NoResponse}

(***************************************************************************)
(* Failure pattern  /was stopped|failed|unable to place/i                  *)
(***************************************************************************)
\* the i flag: case folding on the words of the message alphabet
Lower(w) ==
    CASE w = "FAILED" -> "failed"
      [] w = "Unable" -> "unable"
      [] OTHER -> w

FailurePhrases == {<<"was", "stopped">>, <<"failed">>, <<"unable", "to", "place">>}

Contains(msg, phrase) ==
    \E i \in 1..(Len(msg) - Len(phrase) + 1) :
        \A j \in 1..Len(phrase) : Lower(msg[i + j - 1]) = phrase[j]

FailureTest(msg) == \E p \in FailurePhrases : Contains(msg, p)

(***************************************************************************)
(* waitForStable: event loop and stability predicate                       *)
(***************************************************************************)
\* forEachEvent without printedEventIds.add(ev.id)
RECURSIVE forEachEvent_NoAdd(_, _, _, _)
forEachEvent_NoAdd(evs, i, printed, logged) ==
    IF i > Len(evs)
    THEN [printed |-> printed, logged |-> logged, thrown |-> FALSE, message |-> <<>>]
    ELSE IF evs[i].id \notin printed
         THEN IF FailureTest(evs[i].message)
              THEN [printed |-> printed,
                    logged  |-> Append(logged, evs[i].id),
                    thrown  |-> TRUE,
                    message |-> evs[i].message]
              ELSE forEachEvent_NoAdd(evs, i + 1, printed, Append(logged, evs[i].id))
         ELSE forEachEvent_NoAdd(evs, i + 1, printed, logged)

\* forEachEvent whose throw is deferred to the end of the list
RECURSIVE forEachEvent_PastFailure(_, _, _, _)
forEachEvent_PastFailure(evs, i, printed, logged) ==
    IF i > Len(evs)
    THEN [printed |-> printed, logged |-> logged, thrown |-> FALSE, message |-> <<>>]
    ELSE IF evs[i].id \notin printed
         THEN LET rest == forEachEvent_PastFailure(evs, i + 1, printed \cup {evs[i].id},
                                                   Append(logged, evs[i].id))
              IN  IF FailureTest(evs[i].message)
                  THEN [rest EXCEPT !.thrown = TRUE, !.message = evs[i].message]
                  ELSE rest
         ELSE forEachEvent_PastFailure(evs, i + 1, printed, logged)

\* (svc.events || []).forEach(ev => { if (!printed.has(ev.id)) { add; log; test; throw } })
RECURSIVE forEachEvent(_, _, _, _)
forEachEvent(evs, i, printed, logged) ==
    IF i > Len(evs)
    THEN [printed |-> printed, logged |-> logged, thrown |-> FALSE, message |-> <<>>]
    ELSE IF evs[i].id \notin printed
         THEN IF FailureTest(evs[i].message)
              THEN [printed |-> printed \cup {evs[i].id},
                    logged  |-> Append(logged, evs[i].id),
                    thrown  |-> TRUE,
                    message |-> evs[i].message]
              ELSE forEachEvent(evs, i + 1, printed \cup {evs[i].id},
                                Append(logged, evs[i].id))
         ELSE forEachEvent(evs, i + 1, printed, logged)

\* deployments.find(d => d.status === "PRIMARY"): index of the first one, 0 if none
FindPrimary(ds) ==
    IF \E i \in DOMAIN ds : ds[i].status = "PRIMARY"
    THEN CHOOSE i \in DOMAIN ds :
            /\ ds[i].status = "PRIMARY"
            /\ \A j \in 1..(i - 1) : ds[j].status # "PRIMARY"
    ELSE 0

\* waitForStable's predicate without the deployments.length === 1 conjunct
waitForStable_Stable_AnyLength(ds) ==
    /\ FindPrimary(ds) # 0
    /\ ds[FindPrimary(ds)].runningCount = ds[FindPrimary(ds)].desiredCount

\* primary && primary.runningCount === primary.desiredCount && svc.deployments.length === 1
waitForStable_Stable(ds) ==
    /\ FindPrimary(ds) # 0
    /\ ds[FindPrimary(ds)].runningCount = ds[FindPrimary(ds)].desiredCount
    /\ Len(ds) = 1

\* waitForDeployment's predicate testing the running count for truthiness
waitForDeployment_Stable_Truthy(ds) ==
    /\ FindPrimary(ds) # 0
    /\ ds[FindPrimary(ds)].runningCount # 0
    /\ ds[FindPrimary(ds)].runningCount = ds[FindPrimary(ds)].desiredCount
    /\ Len(SelectSeq(ds, LAMBDA d : d.status # "PRIMARY")) = 0

\* primaryDeployment && running === desired, and no deployment with status !== "PRIMARY"
waitForDeployment_Stable(ds) ==
    /\ FindPrimary(ds) # 0
    /\ ds[FindPrimary(ds)].runningCount = ds[FindPrimary(ds)].desiredCount
    /\ Len(SelectSeq(ds, LAMBDA d : d.status # "PRIMARY")) = 0

\* the loop condition with <= for <
LoopCondition_Inclusive(now, began, budget) == now - began <= budget

\* while (Date.now() - start < timeout)
LoopCondition(now, began, budget) == now - began < budget

\* a sleep that resolves at once
AfterSleep_NoWait(now) == now

\* setTimeout(r, 15000) on the simulated clock
AfterSleep(now) == now + pollInterval

Elapsed == clock - start

\* the observation counters polls and sleeps stop counting one past the
\* number of iterations the budget admits
CountCap == (timeout \div pollInterval) + 1

Count(n) == IF n < CountCap THEN n + 1 ELSE n

(***************************************************************************)
(* Rollout monitor: state machine                                          *)
(***************************************************************************)
\* the monitor has just been invoked: const start = Date.now(); printedEventIds = new Set()
MonStarted ==
    /\ monImpl \in {"waitForStable", "waitForDeployment"}
    /\ monState = "POLLING"
    /\ monPc = "loop"
    /\ clock = 0
    /\ start = 0
    /\ printedEventIds = {}
    /\ svc = NoResponse
    /\ seenBefore = {}
    /\ infoLog = <<>>
    /\ monError = <<>>
    /\ polls = 0
    /\ sleeps = 0
    /\ priorEventIds \in SUBSET EventIds

\* one iteration of waitForStable up to its sleep, return or throw
waitForStable_Poll(resp) ==
    /\ monImpl = "waitForStable"
    /\ monPc = "loop"
    /\ LoopCondition(clock, start, timeout)
    /\ polls' = Count(polls)
    /\ svc' = resp
    /\ seenBefore' = printedEventIds
    /\ IF ~resp.ok
       THEN \* the rejected describe call (or services[0] undefined) propagates
            /\ monState' = "ERROR"
            /\ monPc' = "done"
            /\ monError' = <<"RemoteCallFailed">>
            /\ UNCHANGED <<printedEventIds, infoLog>>
       ELSE LET r == forEachEvent(resp.events, 1, printedEventIds, infoLog) IN
            /\ printedEventIds' = r.printed
            /\ infoLog' = r.logged
            /\ IF r.thrown
               THEN /\ monState' = "FAILED"
                    /\ monPc' = "done"
                    /\ monError' = <<"Deployment", "failed:">> \o r.message
               ELSE IF waitForStable_Stable(resp.deployments)
                    THEN /\ monState' = "STABLE"
                         /\ monPc' = "done"
                         /\ monError' = <<>>
                    ELSE /\ monState' = "POLLING"
                         /\ monPc' = "sleep"
                         /\ monError' = <<>>
    /\ UNCHANGED <<monImpl, clock, start, sleeps, priorEventIds>>
    /\ UNCHANGED provVars

\* one iteration of waitForDeployment up to its sleep or return
waitForDeployment_Poll(resp) ==
    /\ monImpl = "waitForDeployment"
    /\ monPc = "loop"
    /\ LoopCondition(clock, start, timeout)
    /\ polls' = Count(polls)
    /\ svc' = resp
    /\ seenBefore' = printedEventIds
    /\ IF resp.ok /\ waitForDeployment_Stable(resp.deployments)
       THEN /\ monState' = "STABLE"
            /\ monPc' = "done"
       ELSE \* not stable, or the catch block swallowed the error: sleep
            /\ monState' = "POLLING"
            /\ monPc' = "sleep"
    /\ UNCHANGED <<monImpl, clock, start, printedEventIds, infoLog, monError, sleeps,
                   priorEventIds>>
    /\ UNCHANGED provVars

\* await new Promise(r => setTimeout(r, 15000))
MonSleep ==
    /\ monPc = "sleep"
    /\ clock' = AfterSleep(clock)
    /\ sleeps' = Count(sleeps)
    /\ monPc' = "loop"
    \* svc / result are block-scoped to the iteration that ends here
    /\ svc' = NoResponse
    /\ seenBefore' = printedEventIds
    /\ UNCHANGED <<monImpl, monState, start, printedEventIds, infoLog, monError, polls,
                   priorEventIds>>
    /\ UNCHANGED provVars

\* the loop condition fails: throw new Error("Deployment timed-out ...")
MonTimeout ==
    /\ monPc = "loop"
    /\ ~LoopCondition(clock, start, timeout)
    /\ monState' = "TIMED_OUT"
    /\ monPc' = "done"
    /\ monError' = <<"Deployment", "timed", "out">>
    /\ UNCHANGED <<monImpl, clock, start, printedEventIds, svc, seenBefore,
                   infoLog, polls, sleeps, priorEventIds>>
    /\ UNCHANGED provVars

MonNext ==
    \/ \E resp \in Responses : waitForStable_Poll(resp)
    \/ \E resp \in Responses : waitForDeployment_Poll(resp)
    \/ MonSleep
    \/ MonTimeout

(***************************************************************************)
(* The remote control plane                                                *)
(***************************************************************************)
\* names deployCommand derives for project "my-app" and env "prod"
RepositoryName == "my-app-prod"
ClusterName == "my-app-cluster"
ServiceName == "my-app-service"

ExecutionRoleName == "ecsTaskExecutionRole"
TaskRoleName == "ecsTaskRole"
RoleNames == {ExecutionRoleName, TaskRoleName}

ExecutionRolePolicy == "service-role/AmazonECSTaskExecutionRolePolicy"
LogsPolicy == "CloudWatchLogsFullAccess"

\* const name = `${project}-sg`
SgName(project) == [project |-> project, suffix |-> "-sg"]

\* serviceName: `${repositoryName}-service` of createResources in part_003
RepositoryServiceName == "my-app-prod-service"
\* createResources.js:86  the serviceName of a caller that passes none
UndefinedServiceName == "undefined"
ServiceNames == {ServiceName, RepositoryServiceName, UndefinedServiceName}

\* the account's default VPC and its subnets, one of them not default-for-az
DefaultVpc == "vpc-default"
DefaultSubnets ==
    <<[SubnetId |-> "subnet-a", VpcId |-> DefaultVpc, defaultForAz |-> TRUE],
      [SubnetId |-> "subnet-b", VpcId |-> DefaultVpc, defaultForAz |-> FALSE]>>

\* no awsvpcConfiguration
NoNetwork == [subnets |-> <<>>, securityGroups |-> <<>>, assignPublicIp |-> ""]

\* the error of a call the control plane rejects for a reason other than absence
RemoteCallFailed == "AccessDeniedException"

NotFoundErrors == {"RepositoryNotFoundException", "NoSuchEntityException"}

LookupOps ==
    {"DescribeRepositories", "DescribeClusters", "GetRole",
     "DescribeSecurityGroups", "DescribeServices"}

CreateOps ==
    {"CreateRepository", "CreateCluster", "CreateRole", "CreateSecurityGroup",
     "CreateService"}

MutatingOps ==
    CreateOps \cup {"AttachRolePolicy", "AuthorizeSecurityGroupIngress",
                    "RegisterTaskDefinition", "UpdateService"}

\* const x = await v; then(x): the awaited outcome is settled before the
\* statements after it run
Await(v, then(_)) == CHOOSE y \in {then(x) : x \in {v}} : TRUE

\* an invocation under way reads the account c through its own record: log
\* holds the calls it has been answered so far, issue names the call it has
\* on the wire now, stage the part of the run it is in
Stepping(c) == "log" \in DOMAIN c

\* the place of a call in the invocation that issues it
KeyOf(c, op) == [op |-> op, stage |-> IF Stepping(c) THEN c.stage ELSE ""]

NoKey == [op |-> "", stage |-> ""]

\* the reply to a call that has not been issued yet
Pending == "Pending"

\* one remote call as issued: operation, target, the error it was answered
\* with ("" if none), what the reconciler reads from or sends with it, and
\* the reply as it arrived
Call(op, target, err) ==
    [op |-> op, target |-> target, err |-> err, out |-> "", td |-> 0, force |-> FALSE,
     count |-> 0, cluster |-> "", net |-> NoNetwork, ports |-> {},
     key |-> [op |-> op, stage |-> ""], reply |-> [out |-> "", td |-> 0]]

Answer(err, c, out) == [err |-> err, cloud |-> c, out |-> out, td |-> 0]

\* the call answered with a
Issued(op, target, a) ==
    Await(a, LAMBDA answer :
        [Call(op, target, answer.err) EXCEPT
            !.key = answer.key, !.reply = [out |-> answer.out, td |-> answer.td]])

\* await client.send(command): a call answered earlier in this invocation
\* keeps its reply, the call on the wire is answered by the account as it is
\* now (live), and a later call has no reply yet
Remote(c, op, live) ==
    Await(c, LAMBDA acct :
    Await(live, LAMBDA now :
        LET key == KeyOf(acct, op)
            answered == IF Stepping(acct)
                        THEN {i \in DOMAIN acct.log : acct.log[i].key = key}
                        ELSE {}
        IN  IF answered # {}
            THEN LET call == acct.log[CHOOSE i \in answered : TRUE]
                 IN  [err |-> call.err, cloud |-> acct, out |-> call.reply.out,
                      td |-> call.reply.td, key |-> key]
            ELSE IF Stepping(acct) /\ acct.issue # key
            THEN [err |-> Pending, cloud |-> acct, out |-> now.out, td |-> now.td,
                  key |-> key]
            ELSE [err |-> now.err, cloud |-> now.cloud, out |-> now.out,
                  td |-> now.td, key |-> key]))

\* the same account, read from the part of the run called stage
At(c, stage) == IF Stepping(c) THEN [c EXCEPT !.stage = stage] ELSE c

\* identifiers handed back to the caller
RepositoryUri(repo) == [kind |-> "repositoryUri", name |-> repo, n |-> 0]
ClusterArn(name) == [kind |-> "clusterArn", name |-> name, n |-> 0]
RoleArn(roleName) == [kind |-> "roleArn", name |-> roleName, n |-> 0]
GroupId(n) == [kind |-> "GroupId", name |-> "sg", n |-> n]
ServiceArn(name) == [kind |-> "serviceArn", name |-> name, n |-> 0]
TaskDefinitionArn(family, revision) == [kind |-> "taskDefinitionArn", name |-> family, n |-> revision]
Undefined == [kind |-> "undefined", name |-> "", n |-> 0]

\* ecr: DescribeRepositoriesCommand({ repositoryNames: [repo] })
DescribeRepositories(c, repo, f) ==
    Remote(c, "DescribeRepositories",
        IF f = "DescribeRepositories" THEN Answer(RemoteCallFailed, c, "")
        ELSE IF repo \notin c.repos THEN Answer("RepositoryNotFoundException", c, "")
        ELSE Answer("", c, ""))

\* ecr: CreateRepositoryCommand({ repositoryName })
CreateRepository(c, repo, f) ==
    Remote(c, "CreateRepository",
        IF f = "CreateRepository" THEN Answer(RemoteCallFailed, c, "")
        ELSE IF repo \in c.repos THEN Answer("RepositoryAlreadyExistsException", c, "")
        ELSE Answer("", [c EXCEPT !.repos = @ \cup {repo}], ""))

\* ecs: DescribeClustersCommand({ clusters: [name] }); an unknown cluster is
\* answered with an empty clusters list, not with an error
DescribeClusters(c, name, f) ==
    Remote(c, "DescribeClusters",
        IF f = "DescribeClusters" THEN Answer(RemoteCallFailed, c, "")
        ELSE Answer("", c, c.clusters[name]))

\* ecs: CreateClusterCommand({ clusterName }); creating an existing cluster answers with it
CreateCluster(c, name, f) ==
    Remote(c, "CreateCluster",
        IF f = "CreateCluster" THEN Answer(RemoteCallFailed, c, "")
        ELSE Answer("", [c EXCEPT !.clusters[name] = "ACTIVE"], "ACTIVE"))

\* iam: GetRoleCommand({ RoleName })
GetRole(c, roleName, f) ==
    Remote(c, "GetRole",
        IF f = "GetRole" THEN Answer(RemoteCallFailed, c, "")
        ELSE IF ~c.roles[roleName].exists THEN Answer("NoSuchEntityException", c, "")
        ELSE Answer("", c, ""))

\* iam: CreateRoleCommand({ RoleName, AssumeRolePolicyDocument })
CreateRole(c, roleName, f) ==
    Remote(c, "CreateRole",
        IF f = "CreateRole" THEN Answer(RemoteCallFailed, c, "")
        ELSE IF c.roles[roleName].exists THEN Answer("EntityAlreadyExistsException", c, "")
        ELSE Answer("", [c EXCEPT !.roles[roleName] = [exists |-> TRUE, policies |-> {}]], ""))

\* iam: AttachRolePolicyCommand({ RoleName, PolicyArn }); attaching an attached policy succeeds
AttachRolePolicy(c, roleName, policy, f) ==
    Remote(c, "AttachRolePolicy",
        IF f = "AttachRolePolicy" THEN Answer(RemoteCallFailed, c, "")
        ELSE IF ~c.roles[roleName].exists THEN Answer("NoSuchEntityException", c, "")
        ELSE Answer("", [c EXCEPT !.roles[roleName].policies = @ \cup {policy}], ""))

\* iam: ListAttachedRolePoliciesCommand({ RoleName })
ListAttachedRolePolicies(c, roleName, f) ==
    Remote(c, "ListAttachedRolePolicies",
        IF f = "ListAttachedRolePolicies" THEN Answer(RemoteCallFailed, c, {})
        ELSE IF ~c.roles[roleName].exists THEN Answer("NoSuchEntityException", c, {})
        ELSE Answer("", c, c.roles[roleName].policies))

\* index in c.sgs of the first group called name, 0 if none
FindGroup(c, name) ==
    IF \E i \in DOMAIN c.sgs : c.sgs[i].name = name
    THEN CHOOSE i \in DOMAIN c.sgs :
            /\ c.sgs[i].name = name
            /\ \A j \in 1..(i - 1) : c.sgs[j].name # name
    ELSE 0

\* ec2: DescribeSecurityGroupsCommand({ Filters: group-name, vpc-id }); no match is an empty list
DescribeSecurityGroups(c, name, f) ==
    Remote(c, "DescribeSecurityGroups",
        IF f = "DescribeSecurityGroups" THEN Answer(RemoteCallFailed, c, 0)
        ELSE Answer("", c, FindGroup(c, name)))

\* ec2: CreateSecurityGroupCommand({ GroupName, Description, VpcId }); names are unique in a VPC
CreateSecurityGroup(c, name, f) ==
    Remote(c, "CreateSecurityGroup",
        IF f = "CreateSecurityGroup" THEN Answer(RemoteCallFailed, c, "")
        ELSE IF FindGroup(c, name) # 0 THEN Answer("InvalidGroup.Duplicate", c, "")
        ELSE Answer("", [c EXCEPT !.sgs = Append(@, [name |-> name, ingress |-> {}])],
                    Len(c.sgs) + 1))

\* ec2: AuthorizeSecurityGroupIngressCommand({ GroupId, IpPermissions })
AuthorizeSecurityGroupIngress(c, n, ports, f) ==
    Remote(c, "AuthorizeSecurityGroupIngress",
        IF f = "AuthorizeSecurityGroupIngress" THEN Answer(RemoteCallFailed, c, "")
        ELSE Answer("", [c EXCEPT !.sgs[n].ingress = @ \cup ports], ""))

(***************************************************************************)
(* Outcome of one invocation                                               *)
(***************************************************************************)
Returned(calls, value, c) ==
    [calls |-> calls, ok |-> TRUE, value |-> value, error |-> "", cloud |-> c,
     monitor |-> FALSE]

Threw(calls, error, c) ==
    [calls |-> calls, ok |-> FALSE, value |-> Undefined, error |-> error, cloud |-> c,
     monitor |-> FALSE]

\* process.exit(code)
ExitCode(code) == [kind |-> "exit", name |-> "", n |-> code]

\* logger.error(message); process.exit(1): the process ends where it is, no
\* catch block of a caller runs
Exited(calls, message, c) ==
    [calls |-> calls, ok |-> FALSE, value |-> ExitCode(1), error |-> message,
     cloud |-> c, monitor |-> FALSE]

(***************************************************************************)
(* createResources.js: ensureECR, ensureCluster, ensureRole, ensureSG      *)
(***************************************************************************)
ensureECR(c, repo, f) ==
    Await(DescribeRepositories(c, repo, f), LAMBDA d :
        LET calls1 == <<Issued("DescribeRepositories", repo, d)>>
        IN  IF d.err = "" THEN Returned(calls1, RepositoryUri(repo), c)
            ELSE IF d.err # "RepositoryNotFoundException" THEN Threw(calls1, d.err, c)
            ELSE
    Await(CreateRepository(c, repo, f), LAMBDA cr :
        LET calls2 == Append(calls1, Issued("CreateRepository", repo, cr))
        IN  IF cr.err = "" THEN Returned(calls2, RepositoryUri(repo), cr.cloud)
            ELSE Threw(calls2, cr.err, c)))

\* ensureCluster issuing CreateCluster whatever the lookup answered
ensureCluster_NoReuse(c, name, f) ==
    Await(DescribeClusters(c, name, f), LAMBDA d :
        LET calls1 == <<[Issued("DescribeClusters", name, d) EXCEPT !.out = d.out]>>
        IN  IF d.err # "" THEN Threw(calls1, d.err, c)
            ELSE
    Await(CreateCluster(c, name, f), LAMBDA cr :
        LET calls2 == Append(calls1, Issued("CreateCluster", name, cr))
        IN  IF cr.err = "" THEN Returned(calls2, ClusterArn(name), cr.cloud)
            ELSE Threw(calls2, cr.err, c)))

ensureCluster(c, name, f) ==
    Await(DescribeClusters(c, name, f), LAMBDA d :
        LET calls1 == <<[Issued("DescribeClusters", name, d) EXCEPT !.out = d.out]>>
        IN  IF d.err # "" THEN Threw(calls1, d.err, c)
            ELSE IF d.out = "ACTIVE" THEN Returned(calls1, ClusterArn(name), c)
            ELSE
    Await(CreateCluster(c, name, f), LAMBDA cr :
        LET calls2 == Append(calls1, Issued("CreateCluster", name, cr))
        IN  IF cr.err = "" THEN Returned(calls2, ClusterArn(name), cr.cloud)
            ELSE Threw(calls2, cr.err, c)))

\* try { GetRole } catch { CreateRole; AttachRolePolicy }: the catch has no binding
ensureRole(c, roleName, policyArn, f) ==
    Await(GetRole(c, roleName, f), LAMBDA g :
        LET calls1 == <<Issued("GetRole", roleName, g)>>
        IN  IF g.err = "" THEN Returned(calls1, RoleArn(roleName), c)
            ELSE
    Await(CreateRole(c, roleName, f), LAMBDA cr :
        LET calls2 == Append(calls1, Issued("CreateRole", roleName, cr))
        IN  IF cr.err # "" THEN Threw(calls2, cr.err, c)
            ELSE
    Await(AttachRolePolicy(cr.cloud, roleName, policyArn, f), LAMBDA at :
        LET calls3 == Append(calls2, Issued("AttachRolePolicy", roleName, at))
        IN  IF at.err # "" THEN Threw(calls3, at.err, cr.cloud)
            ELSE Returned(calls3, RoleArn(roleName), at.cloud))))

\* IpPermissions of ensureSG: 80, 443 and 3000
ensureSG_Ports == {80, 443, 3000}

\* ensureSG creating the group whatever the lookup answered
ensureSG_NoLookup(c, project, f) ==
    Await(DescribeSecurityGroups(c, SgName(project), f), LAMBDA d :
        LET calls1 == <<Issued("DescribeSecurityGroups", project, d)>>
        IN  IF d.err # "" THEN Threw(calls1, d.err, c)
            ELSE
    Await(CreateSecurityGroup(c, SgName(project), f), LAMBDA cr :
        LET calls2 == Append(calls1, Issued("CreateSecurityGroup", project, cr))
            n == cr.out
        IN  IF cr.err # "" THEN Threw(calls2, cr.err, c)
            ELSE
    Await(AuthorizeSecurityGroupIngress(cr.cloud, n, ensureSG_Ports, f), LAMBDA au :
        LET calls3 == Append(calls2,
                        [Issued("AuthorizeSecurityGroupIngress", project, au) EXCEPT
                            !.ports = ensureSG_Ports])
        IN  IF au.err # "" THEN Threw(calls3, au.err, cr.cloud)
            ELSE Returned(calls3, GroupId(n), au.cloud))))

ensureSG(c, project, f) ==
    Await(DescribeSecurityGroups(c, SgName(project), f), LAMBDA d :
        LET calls1 == <<Issued("DescribeSecurityGroups", project, d)>>
        IN  IF d.err # "" THEN Threw(calls1, d.err, c)
            ELSE IF d.out # 0 THEN Returned(calls1, GroupId(d.out), c)
            ELSE
    Await(CreateSecurityGroup(c, SgName(project), f), LAMBDA cr :
        LET calls2 == Append(calls1, Issued("CreateSecurityGroup", project, cr))
            n == cr.out
        IN  IF cr.err # "" THEN Threw(calls2, cr.err, c)
            ELSE
    Await(AuthorizeSecurityGroupIngress(cr.cloud, n, ensureSG_Ports, f), LAMBDA au :
        LET calls3 == Append(calls2,
                        [Issued("AuthorizeSecurityGroupIngress", project, au) EXCEPT
                            !.ports = ensureSG_Ports])
        IN  IF au.err # "" THEN Threw(calls3, au.err, cr.cloud)
            ELSE Returned(calls3, GroupId(n), au.cloud))))

(***************************************************************************)
(* unnamed/part_003: ensureECRRepository, ensureECSCluster,                *)
(* ensureExecutionRole, ensureSecurityGroup                                *)
(***************************************************************************)
ensureECRRepository(c, repositoryName, f) ==
    Await(DescribeRepositories(c, repositoryName, f), LAMBDA d :
        LET calls1 == <<Issued("DescribeRepositories", repositoryName, d)>>
        IN  IF d.err = "" THEN Returned(calls1, RepositoryUri(repositoryName), c)
            ELSE IF d.err # "RepositoryNotFoundException" THEN Threw(calls1, d.err, c)
            ELSE
    Await(CreateRepository(c, repositoryName, f), LAMBDA cr :
        LET calls2 == Append(calls1, Issued("CreateRepository", repositoryName, cr))
        IN  IF cr.err = "" THEN Returned(calls2, RepositoryUri(repositoryName), cr.cloud)
            ELSE Threw(calls2, cr.err, c)))

\* ensureECSCluster reusing whatever cluster the lookup lists, in any status
ensureECSCluster_AnyStatus(c, clusterName, f) ==
    Await(DescribeClusters(c, clusterName, f), LAMBDA d :
        LET calls1 == <<[Issued("DescribeClusters", clusterName, d) EXCEPT
                            !.out = d.out]>>
        IN  IF d.err = "" /\ d.out # "MISSING" THEN Returned(calls1, Undefined, c)
            ELSE
    Await(CreateCluster(c, clusterName, f), LAMBDA cr :
        LET calls2 == Append(calls1, Issued("CreateCluster", clusterName, cr))
        IN  IF cr.err = "" THEN Returned(calls2, Undefined, cr.cloud)
            ELSE Threw(calls2, cr.err, c)))

\* try { DescribeClusters; if ACTIVE return } catch (error) { } ; CreateCluster
ensureECSCluster(c, clusterName, f) ==
    Await(DescribeClusters(c, clusterName, f), LAMBDA d :
        LET calls1 == <<[Issued("DescribeClusters", clusterName, d) EXCEPT
                            !.out = d.out]>>
        IN  IF d.err = "" /\ d.out = "ACTIVE" THEN Returned(calls1, Undefined, c)
            ELSE
    Await(CreateCluster(c, clusterName, f), LAMBDA cr :
        LET calls2 == Append(calls1, Issued("CreateCluster", clusterName, cr))
        IN  IF cr.err = "" THEN Returned(calls2, Undefined, cr.cloud)
            ELSE Threw(calls2, cr.err, c)))

\* part_003:174  catch (error) { if (error.name === "NoSuchEntityException") {...} throw error }
ensureExecutionRole_174(c, f) ==
    LET roleName == ExecutionRoleName IN
    Await(GetRole(c, roleName, f), LAMBDA g :
        LET calls1 == <<Issued("GetRole", roleName, g)>>
        IN  IF g.err = "" THEN Returned(calls1, RoleArn(roleName), c)
            ELSE IF g.err # "NoSuchEntityException" THEN Threw(calls1, g.err, c)
            ELSE
    Await(CreateRole(c, roleName, f), LAMBDA cr :
        LET calls2 == Append(calls1, Issued("CreateRole", roleName, cr))
        IN  IF cr.err # "" THEN Threw(calls2, cr.err, c)
            ELSE
    Await(AttachRolePolicy(cr.cloud, roleName, ExecutionRolePolicy, f), LAMBDA at :
        LET calls3 == Append(calls2, Issued("AttachRolePolicy", roleName, at))
        IN  IF at.err # "" THEN Threw(calls3, at.err, cr.cloud)
            ELSE Returned(calls3, RoleArn(roleName), at.cloud))))

\* IpPermissions of ensureSecurityGroup: 3000, 80 and 443
ensureSecurityGroup_Ports == {3000, 80, 443}

\* try { DescribeSecurityGroups; if found return } catch (error) { } ; create; authorize
ensureSecurityGroup(c, projectName, f) ==
    Await(DescribeSecurityGroups(c, SgName(projectName), f), LAMBDA d :
        LET calls1 == <<Issued("DescribeSecurityGroups", projectName, d)>>
        IN  IF d.err = "" /\ d.out # 0 THEN Returned(calls1, GroupId(d.out), c)
            ELSE
    Await(CreateSecurityGroup(c, SgName(projectName), f), LAMBDA cr :
        LET calls2 == Append(calls1, Issued("CreateSecurityGroup", projectName, cr))
            n == cr.out
        IN  IF cr.err # "" THEN Threw(calls2, cr.err, c)
            ELSE
    Await(AuthorizeSecurityGroupIngress(cr.cloud, n, ensureSecurityGroup_Ports, f), LAMBDA au :
        LET calls3 == Append(calls2,
                        [Issued("AuthorizeSecurityGroupIngress", projectName, au) EXCEPT
                            !.ports = ensureSecurityGroup_Ports])
        IN  IF au.err # "" THEN Threw(calls3, au.err, cr.cloud)
            ELSE Returned(calls3, GroupId(n), au.cloud))))

(***************************************************************************)
(* Network resolution: getNetworkConfig, getNetworkConfiguration           *)
(***************************************************************************)
\* ec2: DescribeVpcsCommand({ Filters: is-default = true })
DescribeVpcs(c, f) ==
    Remote(c, "DescribeVpcs",
        IF f = "DescribeVpcs" THEN Answer(RemoteCallFailed, c, <<>>)
        ELSE Answer("", c, c.vpcs))

\* ec2: DescribeSubnetsCommand({ Filters: vpc-id [, default-for-az = true] })
DescribeSubnets(c, vpcId, defaultForAzOnly, f) ==
    Remote(c, "DescribeSubnets",
        IF f = "DescribeSubnets" THEN Answer(RemoteCallFailed, c, <<>>)
        ELSE Answer("", c,
                    SelectSeq(c.subnets,
                              LAMBDA sn : sn.VpcId = vpcId /\ (defaultForAzOnly => sn.defaultForAz))))

\* Subnets.map((s) => s.SubnetId)
SubnetIdsOf(Subnets) == [i \in DOMAIN Subnets |-> Subnets[i].SubnetId]

\* the network placement of a provisioned account
ProvisionedNetwork ==
    [subnets |-> SubnetIdsOf(DefaultSubnets), securityGroups |-> <<GroupId(1)>>,
     assignPublicIp |-> "ENABLED"]

\* the DescribeVpcs call as issued, with the VpcId of the first VPC answered
DescribeVpcsCall(v) ==
    [Issued("DescribeVpcs", "is-default", v) EXCEPT
        !.out = IF v.err # "" THEN "" ELSE IF v.out = <<>> THEN "none" ELSE v.out[1]]

\* the message of the error getNetworkConfiguration throws without a default VPC
NoDefaultNetwork == "No default VPC found"

\* createResources.js:176  Vpcs[0].VpcId with no test of the list: on an empty
\* list the property read of undefined throws a TypeError
getNetworkConfig(c, project, f) ==
    Await(DescribeVpcs(c, f), LAMBDA v :
        LET calls1 == <<DescribeVpcsCall(v)>>
        IN  IF v.err # "" THEN Threw(calls1, v.err, c)
            ELSE IF v.out = <<>> THEN Threw(calls1, "TypeError", c)
            ELSE
    Await(DescribeSubnets(c, v.out[1], FALSE, f), LAMBDA sn :
        LET vpcId == v.out[1]
            calls2 == Append(calls1,
                        [Issued("DescribeSubnets", vpcId, sn) EXCEPT
                            !.net.subnets = SubnetIdsOf(sn.out)])
        IN  IF sn.err # "" THEN Threw(calls2, sn.err, c)
            ELSE
    Await(ensureSG(c, project, f), LAMBDA sg :
        IF ~sg.ok THEN Threw(calls2 \o sg.calls, sg.error, sg.cloud)
        ELSE Returned(calls2 \o sg.calls,
                      [subnets |-> SubnetIdsOf(sn.out),
                       securityGroups |-> <<sg.value>>,
                       assignPublicIp |-> "ENABLED"],
                      sg.cloud))))

\* part_003:216  if (vpcs.Vpcs.length === 0) throw new Error("No default VPC found")
getNetworkConfiguration(c, projectName, f) ==
    Await(DescribeVpcs(c, f), LAMBDA v :
        LET calls1 == <<DescribeVpcsCall(v)>>
        IN  IF v.err # "" THEN Threw(calls1, v.err, c)
            ELSE IF Len(v.out) = 0 THEN Threw(calls1, NoDefaultNetwork, c)
            ELSE
    Await(DescribeSubnets(c, v.out[1], TRUE, f), LAMBDA sn :
        LET defaultVpc == v.out[1]
            calls2 == Append(calls1,
                        [Issued("DescribeSubnets", defaultVpc, sn) EXCEPT
                            !.net.subnets = SubnetIdsOf(sn.out)])
        IN  IF sn.err # "" THEN Threw(calls2, sn.err, c)
            ELSE
    Await(ensureSecurityGroup(c, projectName, f), LAMBDA sg :
        IF ~sg.ok THEN Threw(calls2 \o sg.calls, sg.error, sg.cloud)
        ELSE Returned(calls2 \o sg.calls,
                      [subnets |-> SubnetIdsOf(sn.out),
                       securityGroups |-> <<sg.value>>,
                       assignPublicIp |-> "ENABLED"],
                      sg.cloud))))

(***************************************************************************)
(* unnamed/part_002: ensureExecutionRole, ensureTaskRole                   *)
(***************************************************************************)
\* the account the credentials of the run belong to
AccountId == "123456789012"

\* result.Account
Account(id) == [kind |-> "Account", name |-> id, n |-> 0]

\* sts: GetCallerIdentityCommand({})
GetCallerIdentity(c, f) ==
    Remote(c, "GetCallerIdentity",
        IF f = "GetCallerIdentity" THEN Answer(RemoteCallFailed, c, "")
        ELSE Answer("", c, AccountId))

\* part_002:58  GetCallerIdentity; try { GetRole } catch { CreateRole };
\* ListAttachedRolePolicies; attach the policy unless listed
ensureExecutionRole_58(c, f) ==
    LET roleName == ExecutionRoleName IN
    Await(GetCallerIdentity(c, f), LAMBDA id :
        LET calls0 == <<Issued("GetCallerIdentity", "", id)>>
        IN  IF id.err # "" THEN Threw(calls0, id.err, c)
            ELSE
    Await(GetRole(c, roleName, f), LAMBDA g :
        LET calls1 == Append(calls0, Issued("GetRole", roleName, g)) IN
    Await(IF g.err = "" THEN g ELSE CreateRole(c, roleName, f), LAMBDA cr :
        LET calls2 == IF g.err = "" THEN calls1
                      ELSE Append(calls1, Issued("CreateRole", roleName, cr))
            c2 == IF g.err = "" THEN c ELSE cr.cloud
        IN  IF g.err # "" /\ cr.err # "" THEN Threw(calls2, cr.err, c)
            ELSE
    Await(ListAttachedRolePolicies(c2, roleName, f), LAMBDA ls :
        LET calls3 == Append(calls2, Issued("ListAttachedRolePolicies", roleName, ls))
        IN  IF ls.err # "" THEN Threw(calls3, ls.err, c2)
            ELSE IF ExecutionRolePolicy \in ls.out
            THEN Returned(calls3, RoleArn(roleName), c2)
            ELSE
    Await(AttachRolePolicy(c2, roleName, ExecutionRolePolicy, f), LAMBDA at :
        LET calls4 == Append(calls3, Issued("AttachRolePolicy", roleName, at))
        IN  IF at.err # "" THEN Threw(calls4, at.err, c2)
            ELSE Returned(calls4, RoleArn(roleName), at.cloud))))))

\* part_002:101  GetCallerIdentity; try { GetRole } catch { CreateRole; AttachRolePolicy }
ensureTaskRole(c, f) ==
    LET roleName == TaskRoleName IN
    Await(GetCallerIdentity(c, f), LAMBDA id :
        LET calls0 == <<Issued("GetCallerIdentity", "", id)>>
        IN  IF id.err # "" THEN Threw(calls0, id.err, c)
            ELSE
    Await(GetRole(c, roleName, f), LAMBDA g :
        LET calls1 == Append(calls0, Issued("GetRole", roleName, g))
        IN  IF g.err = "" THEN Returned(calls1, RoleArn(roleName), c)
            ELSE
    Await(CreateRole(c, roleName, f), LAMBDA cr :
        LET calls2 == Append(calls1, Issued("CreateRole", roleName, cr))
        IN  IF cr.err # "" THEN Threw(calls2, cr.err, c)
            ELSE
    Await(AttachRolePolicy(cr.cloud, roleName, LogsPolicy, f), LAMBDA at :
        LET calls3 == Append(calls2, Issued("AttachRolePolicy", roleName, at))
        IN  IF at.err # "" THEN Threw(calls3, at.err, cr.cloud)
            ELSE Returned(calls3, RoleArn(roleName), at.cloud)))))

(***************************************************************************)
(* Task definitions and services of the control plane                      *)
(***************************************************************************)
\* const family = `${repositoryName}-task`
Family == "my-app-prod-task"

\* image: `${repositoryUri}:latest`
LatestImage(repositoryUri) == [uri |-> repositoryUri, tag |-> "latest"]

ServiceStatus == {"MISSING", "ACTIVE", "DRAINING", "INACTIVE"}

NoService ==
    [status |-> "MISSING", taskDefinition |-> 0, desiredCount |-> 0, net |-> NoNetwork]

\* a || b of the source, for an option that is a number (undefined is 0 here)
OrDefault(v, d) == IF v = 0 THEN d ELSE v

\* createResources.js:244-269  the parameters registerTaskDefinition sends;
\* volumes stands for the top-level fields it does not set
TaskDefParams(repositoryName, repositoryUri, executionRoleArn, taskRoleArn, containerPort, cpu, memory, region) ==
    [family |-> Family,
     networkMode |-> "awsvpc",
     requiresCompatibilities |-> <<"FARGATE">>,
     cpu |-> cpu,
     memory |-> memory,
     executionRoleArn |-> executionRoleArn,
     taskRoleArn |-> taskRoleArn,
     volumes |-> <<>>,
     containerDefinitions |->
        <<[name |-> repositoryName,
           image |-> LatestImage(repositoryUri),
           essential |-> TRUE,
           portMappings |-> <<[containerPort |-> containerPort, protocol |-> "tcp"]>>,
           logConfiguration |->
              [logDriver |-> "awslogs", group |-> Family, region |-> region]]>>]

\* part_003:331-360  no taskRoleArn, the log region is the literal "us-east-1"
TaskDefParams_319(repositoryName, repositoryUri, executionRoleArn, containerPort, cpu, memory) ==
    [family |-> Family,
     networkMode |-> "awsvpc",
     requiresCompatibilities |-> <<"FARGATE">>,
     cpu |-> cpu,
     memory |-> memory,
     executionRoleArn |-> executionRoleArn,
     taskRoleArn |-> "",
     volumes |-> <<>>,
     containerDefinitions |->
        <<[name |-> repositoryName,
           image |-> LatestImage(repositoryUri),
           essential |-> TRUE,
           portMappings |-> <<[containerPort |-> containerPort, protocol |-> "tcp"]>>,
           logConfiguration |->
              [logDriver |-> "awslogs", group |-> Family, region |-> "us-east-1"]]>>]

\* containerDefinitions.map((c) => ({ ...c, image: `${repositoryUri}:latest` }))
WithImage(containerDefinitions, repositoryUri) ==
    [i \in DOMAIN containerDefinitions |->
        [containerDefinitions[i] EXCEPT !.image = LatestImage(repositoryUri)]]

\* ecs: DescribeServicesCommand({ cluster, services: [service] }); an unknown
\* service is answered with an empty services list
DescribeServices(c, cluster, service, f) ==
    Remote(c, "DescribeServices",
        IF f = "DescribeServices"
        THEN [err |-> RemoteCallFailed, cloud |-> c, out |-> "", td |-> 0]
        ELSE IF c.clusters[cluster] # "ACTIVE"
        THEN [err |-> "ClusterNotFoundException", cloud |-> c, out |-> "", td |-> 0]
        ELSE [err |-> "", cloud |-> c, out |-> c.services[service].status,
              td |-> c.services[service].taskDefinition])

\* ecs: CreateServiceCommand(p)
CreateService(c, p, f) ==
    Remote(c, "CreateService",
        IF f = "CreateService" THEN Answer(RemoteCallFailed, c, "")
        ELSE IF c.clusters[p.cluster] # "ACTIVE" THEN Answer("ClusterNotFoundException", c, "")
        ELSE IF c.services[p.serviceName].status \in {"ACTIVE", "DRAINING"}
        THEN Answer("InvalidParameterException", c, "")
        ELSE Answer("", [c EXCEPT !.services[p.serviceName] =
                            [status |-> "ACTIVE", taskDefinition |-> p.taskDefinition,
                             desiredCount |-> p.desiredCount,
                             net |-> p.networkConfiguration]],
                    "ACTIVE"))

\* ecs: UpdateServiceCommand({ cluster, service, taskDefinition, forceNewDeployment })
UpdateService(c, cluster, service, td, force, f) ==
    Remote(c, "UpdateService",
        IF f = "UpdateService" THEN Answer(RemoteCallFailed, c, "")
        ELSE IF c.services[service].status = "MISSING" THEN Answer("ServiceNotFoundException", c, "")
        ELSE IF c.services[service].status # "ACTIVE" THEN Answer("ServiceNotActiveException", c, "")
        ELSE Answer("", [c EXCEPT !.services[service].taskDefinition = td], "ACTIVE"))

\* ecs: DescribeTaskDefinitionCommand({ taskDefinition })
DescribeTaskDefinition(c, revision, f) ==
    Remote(c, "DescribeTaskDefinition",
        IF f = "DescribeTaskDefinition" THEN Answer(RemoteCallFailed, c, "")
        ELSE IF revision \notin DOMAIN c.taskDefs THEN Answer("ClientException", c, "")
        ELSE Answer("", c, c.taskDefs[revision]))

\* ecs: RegisterTaskDefinitionCommand(params): always a new revision of the family
RegisterTaskDefinition(c, params, f) ==
    Remote(c, "RegisterTaskDefinition",
        IF f = "RegisterTaskDefinition" THEN Answer(RemoteCallFailed, c, 0)
        ELSE Answer("", [c EXCEPT !.taskDefs = Append(@, params)], Len(c.taskDefs) + 1))

\* ecr: GetAuthorizationTokenCommand({}): the registry credentials
GetAuthorizationToken(c, f) ==
    Remote(c, "GetAuthorizationToken",
        IF f = "GetAuthorizationToken" THEN Answer(RemoteCallFailed, c, "")
        ELSE Answer("", c, ""))

\* the docker commands pushToECR runs as child processes
DockerCommands == {"docker login", "docker tag", "docker push"}

\* the rejection of execa when the child process exits with an error
CommandFailed == "Command failed"

\* await execa("docker", [command, ...]): the child process runs to its exit
Execa(c, command, f) ==
    Remote(c, command,
        IF f = command THEN Answer(CommandFailed, c, "")
        ELSE Answer("", c, ""))

\* `${repositoryUri}:latest`, the tag pushToECR returns
RemoteTag(repositoryUri) == [kind |-> "remoteTag", name |-> repositoryUri, n |-> 0]

\* part_002:26  GetAuthorizationToken, docker login, docker tag, docker push,
\* each awaited in turn
pushToECR_26(c, localImage, repositoryUri, f) ==
    Await(GetAuthorizationToken(c, f), LAMBDA au :
        LET calls1 == <<Issued("GetAuthorizationToken", repositoryUri, au)>>
        IN  IF au.err # "" THEN Threw(calls1, au.err, c)
            ELSE
    Await(Execa(c, "docker login", f), LAMBDA lg :
        LET calls2 == Append(calls1, Issued("docker login", repositoryUri, lg))
        IN  IF lg.err # "" THEN Threw(calls2, lg.err, c)
            ELSE
    Await(Execa(c, "docker tag", f), LAMBDA tg :
        LET calls3 == Append(calls2, Issued("docker tag", repositoryUri, tg))
        IN  IF tg.err # "" THEN Threw(calls3, tg.err, c)
            ELSE
    Await(Execa(c, "docker push", f), LAMBDA ps :
        LET calls4 == Append(calls3, Issued("docker push", repositoryUri, ps))
        IN  IF ps.err # "" THEN Threw(calls4, ps.err, c)
            ELSE Returned(calls4, RemoteTag(repositoryUri), c)))))

\* part_002:258  the same four awaits inside try; the catch logs and rethrows
pushToECR(c, localImageName, repositoryUri, f) ==
    Await(GetAuthorizationToken(c, f), LAMBDA authResult :
        LET calls1 == <<Issued("GetAuthorizationToken", repositoryUri, authResult)>>
        IN  IF authResult.err # "" THEN Threw(calls1, authResult.err, c)
            ELSE
    Await(Execa(c, "docker login", f), LAMBDA lg :
        LET calls2 == Append(calls1, Issued("docker login", repositoryUri, lg))
        IN  IF lg.err # "" THEN Threw(calls2, lg.err, c)
            ELSE
    Await(Execa(c, "docker tag", f), LAMBDA tg :
        LET calls3 == Append(calls2, Issued("docker tag", repositoryUri, tg))
        IN  IF tg.err # "" THEN Threw(calls3, tg.err, c)
            ELSE
    Await(Execa(c, "docker push", f), LAMBDA ps :
        LET calls4 == Append(calls3, Issued("docker push", repositoryUri, ps))
        IN  IF ps.err # "" THEN Threw(calls4, ps.err, c)
            ELSE Returned(calls4, RemoteTag(repositoryUri), c)))))

(***************************************************************************)
(* Service reconciliation: ensureService, createECSService                 *)
(***************************************************************************)
\* CreateServiceCommand parameters with the service scaled to nothing
CreateServiceParams_Idle(clusterName, serviceName, taskDefinitionArn, networkConfig) ==
    [cluster |-> clusterName, serviceName |-> serviceName,
     taskDefinition |-> taskDefinitionArn, desiredCount |-> 0,
     launchType |-> "FARGATE", enableExecuteCommand |-> TRUE,
     networkConfiguration |-> networkConfig]

\* { cluster, serviceName, taskDefinition, desiredCount: 1, launchType: "FARGATE",
\*   enableExecuteCommand: true, networkConfiguration: { awsvpcConfiguration } }
CreateServiceParams(clusterName, serviceName, taskDefinitionArn, networkConfig) ==
    [cluster |-> clusterName, serviceName |-> serviceName,
     taskDefinition |-> taskDefinitionArn, desiredCount |-> 1,
     launchType |-> "FARGATE", enableExecuteCommand |-> TRUE,
     networkConfiguration |-> networkConfig]

\* the CreateService call as issued
CreateServiceCall(p, cr) ==
    [Issued("CreateService", p.serviceName, cr) EXCEPT
        !.td = p.taskDefinition, !.count = p.desiredCount, !.cluster = p.cluster,
        !.net = p.networkConfiguration]

\* createResources.js:275  services[0]?.status === "ACTIVE" ? return : CreateService
ensureService(c, clusterName, serviceName, taskDefinitionArn, networkConfig, f) ==
    Await(DescribeServices(c, clusterName, serviceName, f), LAMBDA d :
        LET calls1 == <<[Issued("DescribeServices", serviceName, d) EXCEPT
                            !.out = d.out, !.td = d.td, !.cluster = clusterName]>>
            p == CreateServiceParams(clusterName, serviceName, taskDefinitionArn,
                                     networkConfig)
        IN  IF d.err # "" THEN Threw(calls1, d.err, c)
            ELSE IF d.out = "ACTIVE" THEN Returned(calls1, ServiceArn(serviceName), c)
            ELSE
    Await(CreateService(c, p, f), LAMBDA cr :
        LET calls2 == Append(calls1, CreateServiceCall(p, cr))
        IN  IF cr.err # "" THEN Threw(calls2, cr.err, c)
            ELSE Returned(calls2, ServiceArn(serviceName), cr.cloud)))

\* part_003:369  try { describe; if ACTIVE return } catch (error) { } ; CreateService
createECSService(c, clusterName, serviceName, taskDefinitionArn, networkConfig, f) ==
    Await(DescribeServices(c, clusterName, serviceName, f), LAMBDA d :
        LET calls1 == <<[Issued("DescribeServices", serviceName, d) EXCEPT
                            !.out = d.out, !.td = d.td, !.cluster = clusterName]>>
            p == CreateServiceParams(clusterName, serviceName, taskDefinitionArn,
                                     networkConfig)
        IN  IF d.err = "" /\ d.out = "ACTIVE"
            THEN Returned(calls1, ServiceArn(serviceName), c)
            ELSE
    Await(CreateService(c, p, f), LAMBDA cr :
        LET calls2 == Append(calls1, CreateServiceCall(p, cr))
        IN  IF cr.err # "" THEN Threw(calls2, cr.err, c)
            ELSE Returned(calls2, ServiceArn(serviceName), cr.cloud)))

(***************************************************************************)
(* The rollout monitors as deployToECS awaits them: one step per poll and  *)
(* per sleep                                                                *)
(***************************************************************************)
\* how the rollout of the service goes once UpdateService was accepted:
\* STABLE the tasks of the new revision start after the first poll and the
\* old revision has drained after the second; TIMED_OUT the tasks of the new
\* revision never start; FAILED they never start and from the second poll on
\* the service lists the event of a stopped task; POLL_REJECTED the first
\* poll is rejected and the rollout has settled by the second
Rollouts == {"STABLE", "TIMED_OUT", "FAILED", "POLL_REJECTED"}

\* service.deployments as the k-th poll of a run is answered: the new
\* revision is PRIMARY and has no task running yet while the old one drains
\* (under way); its task runs while the old one still drains; it is the only
\* deployment and runs as many tasks as desired (settled)
DeploymentsAt(rollout, k) ==
    LET starting == [status |-> "PRIMARY", runningCount |-> 0, desiredCount |-> 1]
        running == [status |-> "PRIMARY", runningCount |-> 1, desiredCount |-> 1]
    IN  CASE rollout \in {"TIMED_OUT", "FAILED"} -> <<starting, DrainingDeployment>>
          [] rollout = "POLL_REJECTED" -> <<running>>
          [] OTHER -> IF k = 1 THEN <<starting, DrainingDeployment>>
                      ELSE IF k = 2 THEN <<running, DrainingDeployment>>
                      ELSE <<running>>

\* service.events as the k-th poll of a run is answered, the latest first
EventsAt(rollout, k) ==
    LET event(id) == [id |-> id, message |-> EventMessage(id)]
    IN  IF rollout = "FAILED" /\ k >= 2 THEN <<event(2), event(1)>>
        ELSE <<event(1)>>

\* the k-th iteration of the poll loop, the part of the run its calls are in
PollStage(k) == "poll " \o ToString(k)

\* part_002:207, 404  ecs: DescribeServicesCommand({ cluster, services:
\* [serviceName] }) of the k-th poll; a service the cluster does not have is
\* answered with an empty services list
PollService(c, clusterName, serviceName, rollout, k) ==
    Remote(At(c, PollStage(k)), "DescribeServices",
        IF rollout = "POLL_REJECTED" /\ k = 1 THEN Answer(RemoteCallFailed, c, NoResponse)
        ELSE IF c.services[serviceName].status = "MISSING" THEN Answer("", c, NoResponse)
        ELSE Answer("", c, [ok |-> TRUE, deployments |-> DeploymentsAt(rollout, k),
                            events |-> EventsAt(rollout, k)]))

\* part_002:233, 423, 427  await new Promise(resolve => setTimeout(resolve, 15000))
Sleep(c, k) == Remote(At(c, PollStage(k)), "setTimeout", Answer("", c, ""))

\* the words of an event message as one string
RECURSIVE Joined(_)
Joined(words) ==
    IF words = <<>> THEN ""
    ELSE IF Len(words) = 1 THEN words[1]
    ELSE words[1] \o " " \o Joined(Tail(words))

\* part_002:206-234  while (Date.now() - start < timeout): describe the
\* service (a rejected call and a missing services[0] throw out of the
\* function), log the events not printed yet and throw on the first that
\* names a failure, return when the PRIMARY deployment runs as many tasks as
\* desired and is the only deployment, otherwise sleep 15 s; line 235 throws
\* when the budget has passed.  now is Date.now() - start on a clock that the
\* sleeps advance; a call that has no answer yet suspends the run where it is
RECURSIVE waitForStable_Loop(_, _, _, _, _, _, _, _)
waitForStable_Loop(c, cluster, service, rollout, now, k, printedIds, calls) ==
    IF ~LoopCondition(now, 0, timeout)
    THEN Threw(calls, "Deployment timed-out; tasks never reached steady state", c)
    ELSE
    Await(PollService(c, cluster, service, rollout, k), LAMBDA result :
        LET calls1 == Append(calls,
                        [Issued("DescribeServices", service, result) EXCEPT
                            !.cluster = cluster])
            shown == forEachEvent(result.out.events, 1, printedIds, <<>>)
        IN  IF result.err # "" THEN Threw(calls1, result.err, c)
            ELSE IF ~result.out.ok THEN Threw(calls1, "TypeError", c)
            ELSE IF shown.thrown
            THEN Threw(calls1, "Deployment failed: " \o Joined(shown.message), c)
            ELSE IF waitForStable_Stable(result.out.deployments)
            THEN Returned(calls1, Undefined, c)
            ELSE
    Await(Sleep(c, k), LAMBDA timer :
        LET calls2 == Append(calls1, Issued("setTimeout", "", timer))
        IN  IF timer.err = Pending THEN Threw(calls2, Pending, c)
            ELSE waitForStable_Loop(c, cluster, service, rollout, AfterSleep(now),
                                    k + 1, shown.printed, calls2)))

\* part_002:202  waitForStable(ecs, cluster, service, timeout = 10 * 60 * 1000):
\* const start = Date.now(), let printedEventIds = new Set(), then the loop
waitForStable(c, cluster, service, rollout) ==
    waitForStable_Loop(c, cluster, service, rollout, 0, 1, {}, <<>>)

\* a monitor that returns when its budget ends
TimedOut_Returns(calls, c) == Returned(calls, Undefined, c)

\* part_002:431  throw new Error("Deployment timed out")
TimedOut(calls, c) == Threw(calls, "Deployment timed out", c)

\* part_002:402-429  while (Date.now() - startTime < maxWaitTime): describe the
\* service, return when the PRIMARY deployment runs as many tasks as desired
\* and no deployment has another status; otherwise, and when the describe or
\* the reading of its answer threw, sleep pollInterval and go round again
RECURSIVE waitForDeployment_Loop(_, _, _, _, _, _, _)
waitForDeployment_Loop(c, clusterName, serviceName, rollout, now, k, calls) ==
    IF ~LoopCondition(now, 0, timeout) THEN TimedOut(calls, c)
    ELSE
    Await(PollService(c, clusterName, serviceName, rollout, k), LAMBDA result :
        LET calls1 == Append(calls,
                        [Issued("DescribeServices", serviceName, result) EXCEPT
                            !.cluster = clusterName])
        IN  IF result.err = Pending THEN Threw(calls1, Pending, c)
            ELSE IF /\ result.err = ""
                    /\ result.out.ok
                    /\ waitForDeployment_Stable(result.out.deployments)
            THEN Returned(calls1, Undefined, c)
            ELSE
    Await(Sleep(c, k), LAMBDA timer :
        LET calls2 == Append(calls1, Issued("setTimeout", "", timer))
        IN  IF timer.err = Pending THEN Threw(calls2, Pending, c)
            ELSE waitForDeployment_Loop(c, clusterName, serviceName, rollout,
                                        AfterSleep(now), k + 1, calls2)))

\* part_002:398  waitForDeployment(ecs, clusterName, serviceName, maxWaitTime =
\* 10 * 60 * 1000): const startTime = Date.now(), then the loop
waitForDeployment(c, clusterName, serviceName, rollout) ==
    waitForDeployment_Loop(c, clusterName, serviceName, rollout, 0, 1, <<>>)

(***************************************************************************)
(* deployToECS (both generations)                                          *)
(***************************************************************************)
\* the outcome of deployToECS whose calls up to UpdateService are in update
\* and whose awaited monitor ended as monitored
Monitored(update, monitored, value) ==
    [monitored EXCEPT !.calls = update.calls \o monitored.calls,
                      !.value = IF monitored.ok THEN value ELSE @,
                      !.monitor = TRUE]

\* UpdateServiceCommand parameters sending the service's current definition again
UpdateParams_Current(newTaskDefArn, currentTaskDef) ==
    [taskDefinition |-> currentTaskDef, forceNewDeployment |-> TRUE]

\* { taskDefinition: newTaskDefArn, forceNewDeployment: true }
UpdateParams(newTaskDefArn, currentTaskDef) ==
    [taskDefinition |-> newTaskDefArn, forceNewDeployment |-> TRUE]

\* register the successor of the current definition, update the service to it
RegisterAndUpdate(c, calls1, clusterName, serviceName, currentTaskDef, params, f) ==
    Await(RegisterTaskDefinition(c, params, f), LAMBDA rg :
        LET new == rg.out
            calls2 == Append(calls1,
                        [Issued("RegisterTaskDefinition", Family, rg) EXCEPT
                            !.td = IF rg.err = "" THEN new ELSE 0])
            p == UpdateParams(new, currentTaskDef)
        IN  IF rg.err # "" THEN Threw(calls2, rg.err, c)
            ELSE
    Await(UpdateService(rg.cloud, clusterName, serviceName, p.taskDefinition,
                        p.forceNewDeployment, f), LAMBDA up :
        LET calls3 == Append(calls2,
                        [Issued("UpdateService", serviceName, up) EXCEPT
                            !.td = p.taskDefinition, !.force = p.forceNewDeployment])
        IN  IF up.err # "" THEN Threw(calls3, up.err, rg.cloud)
            ELSE Returned(calls3, TaskDefinitionArn(Family, new), up.cloud)))

\* part_002:139  roles, push, describe the service and its definition,
\* register with the ensured roles, update, await waitForStable; the function
\* has no return statement
deployToECS_139(c, clusterName, serviceName, repositoryUri, rollout, f) ==
    Await(ensureExecutionRole_58(c, f), LAMBDA er :
        IF ~er.ok THEN Threw(er.calls, er.error, er.cloud)
        ELSE
    Await(ensureTaskRole(At(er.cloud, "ensureTaskRole"), f), LAMBDA tr :
        LET calls2 == er.calls \o tr.calls
        IN  IF ~tr.ok THEN Threw(calls2, tr.error, tr.cloud)
            ELSE
    Await(pushToECR_26(tr.cloud, "latest", repositoryUri, f), LAMBDA pu :
        LET calls3 == calls2 \o pu.calls
        IN  IF ~pu.ok THEN Threw(calls3, pu.error, tr.cloud)
            ELSE
    Await(DescribeServices(pu.cloud, clusterName, serviceName, f), LAMBDA d :
        LET calls4 == Append(calls3,
                        [Issued("DescribeServices", serviceName, d) EXCEPT
                            !.out = d.out, !.td = d.td])
        IN  IF d.err # "" THEN Threw(calls4, d.err, pu.cloud)
            ELSE IF d.out = "MISSING"
            THEN Threw(calls4, "Error: Service not found", pu.cloud)
            ELSE
    Await(DescribeTaskDefinition(pu.cloud, d.td, f), LAMBDA dt :
        LET calls5 == Append(calls4,
                        [Issued("DescribeTaskDefinition", Family, dt) EXCEPT
                            !.td = d.td])
            td == dt.out
            params == [family |-> td.family,
                       networkMode |-> td.networkMode,
                       requiresCompatibilities |-> td.requiresCompatibilities,
                       cpu |-> td.cpu,
                       memory |-> td.memory,
                       executionRoleArn |-> er.value.name,
                       taskRoleArn |-> tr.value.name,
                       volumes |-> <<>>,
                       containerDefinitions |->
                          WithImage(td.containerDefinitions, repositoryUri)]
        IN  IF dt.err # "" THEN Threw(calls5, dt.err, pu.cloud)
            ELSE
    Await(RegisterAndUpdate(pu.cloud, calls5, clusterName, serviceName, d.td,
                            params, f), LAMBDA up :
        IF ~up.ok THEN up
        ELSE
    Await(waitForStable(up.cloud, clusterName, serviceName, rollout), LAMBDA ws :
        Monitored(up, ws, Undefined))))))))

\* part_002:305  describe (any error reads as absent), require ACTIVE, describe
\* its definition, register with the roles of that definition, update, await
\* waitForDeployment, return newTaskDefArn; the catch logs and throws the
\* error again
deployToECS_305(c, clusterName, serviceName, repositoryUri, rollout, f) ==
    Await(DescribeServices(c, clusterName, serviceName, f), LAMBDA d :
        LET calls1 == <<[Issued("DescribeServices", serviceName, d) EXCEPT
                            !.out = d.out, !.td = d.td]>>
            serviceExists == d.err = "" /\ d.out = "ACTIVE"
        IN  IF ~serviceExists THEN Threw(calls1, "Error: ECS service not found", c)
            ELSE
    Await(DescribeTaskDefinition(c, d.td, f), LAMBDA dt :
        LET calls2 == Append(calls1,
                        [Issued("DescribeTaskDefinition", Family, dt) EXCEPT
                            !.td = d.td])
            oldTaskDef == dt.out
            newTaskDefParams ==
                [family |-> oldTaskDef.family,
                 taskRoleArn |-> oldTaskDef.taskRoleArn,
                 executionRoleArn |-> oldTaskDef.executionRoleArn,
                 networkMode |-> oldTaskDef.networkMode,
                 requiresCompatibilities |-> oldTaskDef.requiresCompatibilities,
                 cpu |-> oldTaskDef.cpu,
                 memory |-> oldTaskDef.memory,
                 volumes |-> <<>>,
                 containerDefinitions |->
                    WithImage(oldTaskDef.containerDefinitions, repositoryUri)]
        IN  IF dt.err # "" THEN Threw(calls2, dt.err, c)
            ELSE
    Await(RegisterAndUpdate(c, calls2, clusterName, serviceName, d.td,
                            newTaskDefParams, f), LAMBDA up :
        IF ~up.ok THEN up
        ELSE
    Await(waitForDeployment(up.cloud, clusterName, serviceName, rollout), LAMBDA wd :
        Monitored(up, wd, up.value)))))

(***************************************************************************)
(* registerTaskDefinition, createResources (both generations)              *)
(***************************************************************************)
\* a registrar that returns the ARN of the revision before the one it registered
registerTaskDefinition_Stale(c, repositoryName, repositoryUri, executionRoleArn, taskRoleArn, containerPort, cpu, memory, region, f) ==
    LET params == TaskDefParams(repositoryName, repositoryUri, executionRoleArn,
                                taskRoleArn, containerPort, cpu, memory, region)
        rg == RegisterTaskDefinition(c, params, f)
        new == rg.out
        calls1 == <<[Issued("RegisterTaskDefinition", Family, rg) EXCEPT
                        !.td = IF rg.err = "" THEN new ELSE 0]>>
    IN  IF rg.err # "" THEN Threw(calls1, rg.err, c)
        ELSE Returned(calls1, TaskDefinitionArn(Family, new - 1), rg.cloud)

\* createResources.js:229  one RegisterTaskDefinition call, returns the new ARN
registerTaskDefinition(c, repositoryName, repositoryUri, executionRoleArn, taskRoleArn, containerPort, cpu, memory, region, f) ==
    LET params == TaskDefParams(repositoryName, repositoryUri, executionRoleArn,
                                taskRoleArn, containerPort, cpu, memory, region)
        rg == RegisterTaskDefinition(c, params, f)
        new == rg.out
        calls1 == <<[Issued("RegisterTaskDefinition", Family, rg) EXCEPT
                        !.td = IF rg.err = "" THEN new ELSE 0]>>
    IN  IF rg.err # "" THEN Threw(calls1, rg.err, c)
        ELSE Returned(calls1, TaskDefinitionArn(Family, new), rg.cloud)

\* part_003:319  the same with parseInt(containerPort), a number already here
registerTaskDefinition_319(c, repositoryName, repositoryUri, executionRoleArn, containerPort, cpu, memory, f) ==
    LET params == TaskDefParams_319(repositoryName, repositoryUri, executionRoleArn,
                                    containerPort, cpu, memory)
        rg == RegisterTaskDefinition(c, params, f)
        new == rg.out
        calls1 == <<[Issued("RegisterTaskDefinition", Family, rg) EXCEPT
                        !.td = IF rg.err = "" THEN new ELSE 0]>>
    IN  IF rg.err # "" THEN Threw(calls1, rg.err, c)
        ELSE Returned(calls1, TaskDefinitionArn(Family, new), rg.cloud)

\* a run before its first stage
Started(c) ==
    [calls |-> <<>>, ok |-> TRUE, value |-> Undefined, error |-> "", cloud |-> c,
     monitor |-> FALSE, stages |-> <<>>]

\* an awaited stage that is taken to have succeeded whatever it threw
StageFailed_Ignored(r) == FALSE

\* an awaited stage threw: the exception leaves the enclosing async function
StageFailed(r) == ~r.ok

\* run after stage: the stage whose outcome is n runs in sequence after the
\* run r so far, unless r has failed already
AndThen(r, stage, n) ==
    IF StageFailed(r) THEN r
    ELSE [calls |-> r.calls \o n.calls, ok |-> n.ok, value |-> n.value,
          error |-> n.error, cloud |-> n.cloud, monitor |-> n.monitor,
          stages |-> Append(r.stages,
                            [name |-> stage, ok |-> n.ok, calls |-> Len(n.calls)])]

\* createResources.js:52, part_003:105  (await sts.send(new
\* GetCallerIdentityCommand({}))).Account
getAccountId(c, f) ==
    Await(GetCallerIdentity(c, f), LAMBDA result :
        LET calls1 == <<Issued("GetCallerIdentity", "", result)>>
        IN  IF result.err # "" THEN Threw(calls1, result.err, c)
            ELSE Returned(calls1, Account(result.out), c))

\* createResources.js:37  account, ensureECR, ensureCluster, ensureRole twice,
\* getNetworkConfig, registerTaskDefinition, ensureService, each awaited in turn
createResources(c, clusterName, serviceName, repositoryName, taskDef, f) ==
    Await(AndThen(Started(c), "getAccountId", getAccountId(c, f)), LAMBDA s0 :
    Await(ensureECR(s0.cloud, repositoryName, f), LAMBDA ecr :
    Await(AndThen(s0, "ensureECR", ecr), LAMBDA s1 :
    Await(AndThen(s1, "ensureCluster", ensureCluster(s1.cloud, clusterName, f)), LAMBDA s2 :
    Await(ensureRole(s2.cloud, ExecutionRoleName, ExecutionRolePolicy, f), LAMBDA er :
    Await(AndThen(s2, "ensureRole", er), LAMBDA s3 :
    Await(ensureRole(At(s3.cloud, "taskRole"), TaskRoleName, LogsPolicy, f), LAMBDA tr :
    Await(AndThen(s3, "ensureRole", tr), LAMBDA s4 :
    Await(getNetworkConfig(s4.cloud, repositoryName, f), LAMBDA nw :
    Await(AndThen(s4, "getNetworkConfig", nw), LAMBDA s5 :
    Await(registerTaskDefinition(s5.cloud, repositoryName, ecr.value.name,
                                 er.value.name, tr.value.name,
                                 OrDefault(taskDef.containerPort, 3000),
                                 "256", "512", "us-east-1", f), LAMBDA td :
    Await(AndThen(s5, "registerTaskDefinition", td), LAMBDA s6 :
    Await(AndThen(s6, "ensureService",
                  ensureService(s6.cloud, clusterName, serviceName, td.value.n,
                                nw.value, f)), LAMBDA s7 :
        IF StageFailed(s7) THEN s7
        ELSE [s7 EXCEPT !.value = ecr.value])))))))))))))

\* part_003:39  account, ensureECRRepository, ensureECSCluster,
\* ensureExecutionRole, getNetworkConfiguration, registerTaskDefinition,
\* createECSService for `${repositoryName}-service`; the catch rethrows
createResources_39(c, clusterName, repositoryName, taskDef, f) ==
    Await(AndThen(Started(c), "getAccountId", getAccountId(c, f)), LAMBDA s0 :
    Await(ensureECRRepository(s0.cloud, repositoryName, f), LAMBDA ecr :
    Await(AndThen(s0, "ensureECRRepository", ecr), LAMBDA s1 :
    Await(AndThen(s1, "ensureECSCluster",
                  ensureECSCluster(s1.cloud, clusterName, f)), LAMBDA s2 :
    Await(ensureExecutionRole_174(s2.cloud, f), LAMBDA er :
    Await(AndThen(s2, "ensureExecutionRole", er), LAMBDA s3 :
    Await(getNetworkConfiguration(s3.cloud, repositoryName, f), LAMBDA nw :
    Await(AndThen(s3, "getNetworkConfiguration", nw), LAMBDA s4 :
    Await(registerTaskDefinition_319(s4.cloud, repositoryName, ecr.value.name,
                                     er.value.name,
                                     OrDefault(taskDef.containerPort, 3000),
                                     "256", "512", f), LAMBDA td :
    Await(AndThen(s4, "registerTaskDefinition", td), LAMBDA s5 :
    Await(AndThen(s5, "createECSService",
                  createECSService(s5.cloud, clusterName, RepositoryServiceName,
                                   td.value.n, nw.value, f)), LAMBDA s6 :
        IF StageFailed(s6) THEN s6
        ELSE [s6 EXCEPT !.value = ecr.value])))))))))))

(***************************************************************************)
(* deployCommand: deploy.js:6 imports createResources of                   *)
(* createResources.js and passes deployToECS the parameters of part_002:305 *)
(***************************************************************************)
\* deploy.js:23-26  no Dockerfile: logger.error, process.exit(1)
validateDocker(c, dockerfile) ==
    IF dockerfile THEN Returned(<<>>, Undefined, c)
    ELSE Exited(<<>>, "Dockerfile not found", c)

\* the package.json of the project: none, one that names the project, one
\* without a name, one whose name is a number, one that is not JSON
PackageJsons == {"absent", "named", "unnamed", "numericName", "malformed"}

\* path.basename(resolvedPath) of the project
Basename == "my-app"

ProjectName(name) == [kind |-> "projectName", name |-> name, n |-> 0]

ImageName(name) == [kind |-> "imageName", name |-> name, n |-> 0]

\* fs.readFile(packageJsonPath, "utf-8")
ReadFile(c, packageJson, f) ==
    Remote(c, "fs.readFile",
        IF f = "fs.readFile" THEN Answer("EACCES", c, "")
        ELSE Answer("", c, packageJson))

\* JSON.parse(text).name: the name, "" when there is none; a text that is
\* not JSON throws SyntaxError
ParsedName(text) ==
    CASE text = "named" -> [err |-> "", name |-> "my-app", string |-> TRUE]
      [] text = "unnamed" -> [err |-> "", name |-> "", string |-> TRUE]
      [] text = "numericName" -> [err |-> "", name |-> "42", string |-> FALSE]
      [] OTHER -> [err |-> "SyntaxError", name |-> "", string |-> FALSE]

\* deploy.js:29-39  projectName: pkg.name || path.basename(resolvedPath) of
\* the package.json read and parsed, the basename when there is no
\* package.json; projectName.toLowerCase() throws TypeError on a name that is
\* no string.  The names of the model are lower case with no character for
\* the replace of line 39 to change.
projectName(c, packageJson, f) ==
    IF packageJson = "absent" THEN Returned(<<>>, ProjectName(Basename), c)
    ELSE
    Await(ReadFile(c, packageJson, f), LAMBDA text :
        LET calls1 == <<Issued("fs.readFile", "package.json", text)>>
            pkg == ParsedName(text.out)
        IN  IF text.err # "" THEN Threw(calls1, text.err, c)
            ELSE IF pkg.err # "" THEN Threw(calls1, pkg.err, c)
            ELSE IF pkg.name = "" THEN Returned(calls1, ProjectName(Basename), c)
            ELSE IF ~pkg.string THEN Threw(calls1, "TypeError", c)
            ELSE Returned(calls1, ProjectName(pkg.name), c))

\* execa("docker", ["build", "-t", imageName, "."]), run as a child process
\* and awaited
DockerBuild(c, imageName, f) == Execa(c, "docker build", f)

\* part_000:7 (utils/docker.js)  no Dockerfile: logger.error, process.exit(1);
\* docker build; the catch logs and calls process.exit(1); returns imageName
buildDockerImage(c, dockerfile, imageName, f) ==
    IF ~dockerfile THEN Exited(<<>>, "Dockerfile not found", c)
    ELSE
    Await(DockerBuild(c, imageName, f), LAMBDA b :
        LET calls1 == <<Issued("docker build", imageName, b)>>
        IN  IF b.err # "" THEN Exited(calls1, b.err, c)
            ELSE Returned(calls1, ImageName(imageName), c))

\* deploy.js:94-105  logger.success and the table of cluster, service,
\* repository, region and environment
SuccessSummary(clusterName, serviceName, repositoryUri) ==
    [kind |-> "summary", name |-> serviceName, n |-> 0, cluster |-> clusterName,
     repository |-> repositoryUri, region |-> "us-east-1", environment |-> "prod"]

\* a dry-run flag that is never honoured
DryRun_Never(options) == FALSE

\* deploy.js:52  if (global.dryRun), set from --dry-run by the preAction hook
DryRun(options) == options.dryRun

\* deploy.js:107-113  catch (error): logger.error("Deployment failed:",
\* error.message), process.exit(1)
Caught(run) == IF StageFailed(run) THEN [run EXCEPT !.value = ExitCode(1)] ELSE run

\* deploy.js:11  Dockerfile check, project name and the names made of it,
\* dry-run exit, build, createResources (called with no serviceName),
\* pushToECR, deployToECS with its monitor, summary; any exception ends in the
\* catch block.  deploy.js:72 awaits getOrCreateExecutionRole, a local
\* function that returns a constant ARN with no call; createResources.js:58
\* does not read it and resolves the role with ensureRole
deployCommand(c, options, rollout, f) ==
    Await(AndThen(Started(c), "validateDocker",
                  validateDocker(c, options.dockerfile)), LAMBDA s0 :
    Await(projectName(s0.cloud, options.packageJson, f), LAMBDA pn :
    Await(AndThen(s0, "projectName", pn), LAMBDA s1 :
    \* let projectName = "my-app", assigned from the package.json or the path
    LET sanitizedName == IF pn.ok THEN pn.value.name ELSE "my-app"
        clusterName == sanitizedName \o "-cluster"
        serviceName == IF options.service # "" THEN options.service
                       ELSE sanitizedName \o "-service"
        repositoryName == sanitizedName \o "-prod"
        imageName == repositoryName \o ":latest"
    IN
    IF StageFailed(s1) THEN Caught(s1)
    ELSE IF DryRun(options) THEN [s1 EXCEPT !.value = Undefined]
    ELSE
    Await(AndThen(s1, "buildDockerImage",
                  buildDockerImage(s1.cloud, options.dockerfile, imageName, f)),
          LAMBDA s2 :
    Await(createResources(s2.cloud, clusterName, UndefinedServiceName,
                          repositoryName, [containerPort |-> 3000], f), LAMBDA cr :
    Await(IF StageFailed(s2) THEN s2
          ELSE [cr EXCEPT !.calls = s2.calls \o cr.calls,
                          !.stages = s2.stages \o cr.stages], LAMBDA s3 :
    Await(AndThen(s3, "pushToECR",
                  pushToECR(s3.cloud, imageName, cr.value.name, f)), LAMBDA s4 :
    Await(AndThen(s4, "deployToECS",
                  deployToECS_305(At(s4.cloud, "deployToECS"), clusterName,
                                  serviceName, cr.value.name, rollout, f)),
          LAMBDA s5 :
        IF StageFailed(s5) THEN Caught(s5)
        ELSE [s5 EXCEPT !.value = SuccessSummary(clusterName, serviceName,
                                                 cr.value)]))))))))

(***************************************************************************)
(* Invocations                                                             *)
(***************************************************************************)
\* most task definition revisions the control plane holds in a run of the model
MaxRevisions == 3

\* most invocations of single functions, one after the other or overlapping, in a behaviour
MaxInvocations == 2

\* most runs of a whole command, one after the other or overlapping, in a behaviour
MaxRuns == 2

\* what an invocation is given beside its target: for deployCommand --service,
\* --dry-run, whether the project has a Dockerfile, its package.json and how
\* the rollout goes; the revision a service is reconciled to;
\* taskDef.containerPort
NoInput ==
    [service |-> "", dryRun |-> FALSE, dockerfile |-> FALSE, packageJson |-> "",
     rollout |-> "", td |-> 0, containerPort |-> 0]

NoInv ==
    [fn |-> "none", target |-> "", calls |-> <<>>, ok |-> FALSE,
     value |-> Undefined, error |-> "", monitor |-> FALSE, stages |-> <<>>,
     run |-> 0, input |-> NoInput, alone |-> TRUE, f |-> "none"]

CountOps(calls, ops) == Cardinality({i \in DOMAIN calls : calls[i].op \in ops})

\* what is remembered of the invocation that returned before lastInv
Summary(inv) ==
    [fn |-> inv.fn, target |-> inv.target, ok |-> inv.ok, value |-> inv.value,
     creates |-> CountOps(inv.calls, CreateOps), alone |-> inv.alone, f |-> inv.f]

\* the operation the control plane rejects during one invocation, if any
Faults(ops) == {"none"} \cup ops

\* createResources.js:58-69  the policy createResources asks for with each role
RolePolicy(roleName) ==
    IF roleName = ExecutionRoleName THEN ExecutionRolePolicy ELSE LogsPolicy

(***************************************************************************)
(* An async function runs up to its next await, hands the call to the      *)
(* control plane and is resumed with the answer: between two awaits of one *)
(* invocation the calls of other invocations reach the account.            *)
(***************************************************************************)
Racers == {1, 2}

Idle ==
    [fn |-> "none", target |-> "", f |-> "none", input |-> NoInput, calls |-> <<>>,
     next |-> NoKey, run |-> 0, alone |-> TRUE]

\* the account as an invocation sees it that has had the calls of log
\* answered and has the call issue on the wire
With(c, log, issue) ==
    [repos |-> c.repos, clusters |-> c.clusters, roles |-> c.roles, sgs |-> c.sgs,
     taskDefs |-> c.taskDefs, services |-> c.services, vpcs |-> c.vpcs,
     subnets |-> c.subnets, log |-> log, issue |-> issue, stage |-> ""]

Strip(c) ==
    [repos |-> c.repos, clusters |-> c.clusters, roles |-> c.roles, sgs |-> c.sgs,
     taskDefs |-> c.taskDefs, services |-> c.services, vpcs |-> c.vpcs,
     subnets |-> c.subnets]

\* the body of a provisioner, called with its target on account c
RunProvisioner(fn, target, f, c) ==
    CASE fn = "ensureECR" -> ensureECR(c, target, f)
      [] fn = "ensureCluster" -> ensureCluster(c, target, f)
      [] fn = "ensureRole" -> ensureRole(c, target, RolePolicy(target), f)
      [] fn = "ensureSG" -> ensureSG(c, target, f)
      [] fn = "ensureECRRepository" -> ensureECRRepository(c, target, f)
      [] fn = "ensureECSCluster" -> ensureECSCluster(c, target, f)
      [] fn = "ensureExecutionRole_174" -> ensureExecutionRole_174(c, f)
      [] fn = "ensureSecurityGroup" -> ensureSecurityGroup(c, target, f)
      [] fn = "ensureExecutionRole_58" -> ensureExecutionRole_58(c, f)
      [] fn = "ensureTaskRole" -> ensureTaskRole(c, f)

RunResolver(fn, target, f, c) ==
    CASE fn = "getNetworkConfig" -> getNetworkConfig(c, target, f)
      [] fn = "getNetworkConfiguration" -> getNetworkConfiguration(c, target, f)

RunReconciler(fn, target, input, f, c) ==
    CASE fn = "ensureService" ->
            ensureService(c, ClusterName, target, input.td, ProvisionedNetwork, f)
      [] fn = "createECSService" ->
            createECSService(c, ClusterName, target, input.td, ProvisionedNetwork, f)
      [] fn = "deployToECS_139" ->
            deployToECS_139(c, ClusterName, target, RepositoryName, input.rollout, f)
      [] fn = "deployToECS_305" ->
            deployToECS_305(c, ClusterName, target, RepositoryName, input.rollout, f)
      [] fn = "registerTaskDefinition" ->
            registerTaskDefinition(c, RepositoryName, RepositoryName,
                                   ExecutionRoleName, TaskRoleName,
                                   OrDefault(input.containerPort, 3000),
                                   "256", "512", "us-east-1", f)
      [] fn = "registerTaskDefinition_319" ->
            registerTaskDefinition_319(c, RepositoryName, RepositoryName,
                                       ExecutionRoleName,
                                       OrDefault(input.containerPort, 3000),
                                       "256", "512", f)

RunResources(fn, input, f, c) ==
    CASE fn = "createResources" ->
            createResources(c, ClusterName, ServiceName, RepositoryName,
                            [containerPort |-> input.containerPort], f)
      [] fn = "createResources_39" ->
            createResources_39(c, ClusterName, RepositoryName,
                               [containerPort |-> input.containerPort], f)

RunCommand(input, f, c) ==
    deployCommand(c, [service |-> input.service, dryRun |-> input.dryRun,
                      dockerfile |-> input.dockerfile,
                      packageJson |-> input.packageJson], input.rollout, f)

\* the account as a function sees it when it is called
Called == With(cloud, <<>>, NoKey)

\* the invocation pr has come to its return or throw, with outcome r
Ended(pr, r) ==
    [fn |-> pr.fn, target |-> pr.target, calls |-> r.calls,
     ok |-> r.ok, value |-> r.value, error |-> r.error, monitor |-> r.monitor,
     stages |-> IF "stages" \in DOMAIN r THEN r.stages ELSE <<>>,
     run |-> pr.run, input |-> pr.input, alone |-> pr.alone, f |-> pr.f]

InFlight == {p \in Racers : inflight[p] # Idle}

\* two invocations overlap only when they are deployments doing the same
\* thing with the same options; the control plane rejects calls of one invocation of a behaviour,
\* and that one runs on its own
MayOverlap(fn, input, f) ==
    /\ \A q \in InFlight : /\ inflight[q].fn = fn
                            /\ inflight[q].input = input
                            /\ inflight[q].f = "none"
                            /\ f = "none"
    /\ f # "none" => (lastInv.f = "none" /\ prevInv.f = "none")

\* fn(target) is called: it runs to its first await, or to its end when it
\* awaits no call at all; first is fn run on Called
Start(fn, target, f, input, most, first) ==
    /\ started < most
    /\ MayOverlap(fn, input, f)
    /\ \E p \in Racers \ InFlight :
          /\ \A q \in Racers \ InFlight : p <= q
          /\ \E pr \in {[fn |-> fn, target |-> target, f |-> f, input |-> input,
                         calls |-> <<>>, next |-> NoKey, run |-> started + 1,
                         alone |-> InFlight = {}]} :
             \E r \in {first} :
                IF r.calls = <<>>
                THEN /\ lastInv' = Ended(pr, r)
                     /\ prevInv' = Summary(lastInv)
                     /\ atReturn' = TRUE
                     /\ UNCHANGED inflight
                ELSE /\ inflight' =
                            [q \in Racers |->
                                IF q = p THEN [pr EXCEPT !.next = r.calls[1].key]
                                ELSE [inflight[q] EXCEPT !.alone = (inflight[q] = Idle)]]
                     /\ UNCHANGED <<lastInv, prevInv, atReturn>>
    /\ started' = started + 1
    /\ UNCHANGED cloud
    /\ UNCHANGED monVars

\* the call invocation p awaits reaches the control plane and is answered;
\* p runs on to its next await, where it is suspended again, or to its
\* return or throw; body is the function p runs
Resume(p, body(_)) ==
    /\ inflight[p] # Idle
    /\ LET pr == inflight[p]
           answered == Len(pr.calls) + 1
       IN  \E r \in {body(With(cloud, pr.calls, pr.next))} :
              /\ cloud' = Strip(r.cloud)
              /\ IF Len(r.calls) = answered
                 THEN /\ lastInv' = Ended(pr, r)
                      /\ prevInv' = Summary(lastInv)
                      /\ inflight' = [inflight EXCEPT ![p] = Idle]
                      /\ atReturn' = TRUE
                 ELSE /\ inflight' = [inflight EXCEPT
                                         ![p].calls = SubSeq(r.calls, 1, answered),
                                         ![p].next = r.calls[answered + 1].key]
                      /\ atReturn' = FALSE
                      /\ UNCHANGED <<lastInv, prevInv>>
    /\ UNCHANGED started
    /\ UNCHANGED monVars

\* a provisioner is resumed
Resume_Provisioner ==
    \E p \in Racers :
        Resume(p, LAMBDA c : RunProvisioner(inflight[p].fn, inflight[p].target,
                                            inflight[p].f, c))

\* one call of a function on its own
Invoke(fn, target, f, input, first) ==
    Start(fn, target, f, input, MaxInvocations, first)

\* one run of a whole command
InvokeRun(fn, target, f, input, first) ==
    Start(fn, target, f, input, MaxRuns, first)

Invoke_ensureECR ==
    \E f \in Faults({"DescribeRepositories", "CreateRepository"}) :
        Invoke("ensureECR", RepositoryName, f, NoInput,
               ensureECR(Called, RepositoryName, f))

Invoke_ensureCluster ==
    \E f \in Faults({"DescribeClusters", "CreateCluster"}) :
        Invoke("ensureCluster", ClusterName, f, NoInput,
               ensureCluster(Called, ClusterName, f))

Invoke_ensureRole ==
    \E roleName \in RoleNames, f \in Faults({"GetRole", "CreateRole", "AttachRolePolicy"}) :
        Invoke("ensureRole", roleName, f, NoInput,
               ensureRole(Called, roleName, RolePolicy(roleName), f))

Invoke_ensureSG ==
    \E f \in Faults({"DescribeSecurityGroups", "CreateSecurityGroup",
                     "AuthorizeSecurityGroupIngress"}) :
        Invoke("ensureSG", RepositoryName, f, NoInput,
               ensureSG(Called, RepositoryName, f))

Invoke_ensureECRRepository ==
    \E f \in Faults({"DescribeRepositories", "CreateRepository"}) :
        Invoke("ensureECRRepository", RepositoryName, f, NoInput,
               ensureECRRepository(Called, RepositoryName, f))

Invoke_ensureECSCluster ==
    \E f \in Faults({"DescribeClusters", "CreateCluster"}) :
        Invoke("ensureECSCluster", ClusterName, f, NoInput,
               ensureECSCluster(Called, ClusterName, f))

Invoke_ensureExecutionRole_174 ==
    \E f \in Faults({"GetRole", "CreateRole", "AttachRolePolicy"}) :
        Invoke("ensureExecutionRole_174", ExecutionRoleName, f, NoInput,
               ensureExecutionRole_174(Called, f))

Invoke_ensureSecurityGroup ==
    \E f \in Faults({"DescribeSecurityGroups", "CreateSecurityGroup",
                     "AuthorizeSecurityGroupIngress"}) :
        Invoke("ensureSecurityGroup", RepositoryName, f, NoInput,
               ensureSecurityGroup(Called, RepositoryName, f))

Invoke_ensureExecutionRole_58 ==
    \E f \in Faults({"GetCallerIdentity", "GetRole", "CreateRole",
                     "ListAttachedRolePolicies", "AttachRolePolicy"}) :
        Invoke("ensureExecutionRole_58", ExecutionRoleName, f, NoInput,
               ensureExecutionRole_58(Called, f))

Invoke_ensureTaskRole ==
    \E f \in Faults({"GetCallerIdentity", "GetRole", "CreateRole", "AttachRolePolicy"}) :
        Invoke("ensureTaskRole", TaskRoleName, f, NoInput,
               ensureTaskRole(Called, f))

ProvisionNext ==
    \/ Invoke_ensureECR
    \/ Invoke_ensureCluster
    \/ Invoke_ensureRole
    \/ Invoke_ensureSG
    \/ Invoke_ensureECRRepository
    \/ Invoke_ensureECSCluster
    \/ Invoke_ensureExecutionRole_174
    \/ Invoke_ensureSecurityGroup
    \/ Invoke_ensureExecutionRole_58
    \/ Invoke_ensureTaskRole
    \/ Resume_Provisioner

\* the provisioners two deployments of one project are started in together
RaceFns == {"ensureECR", "ensureCluster", "ensureRole", "ensureSG",
            "ensureECRRepository", "ensureECSCluster", "ensureSecurityGroup"}

RaceTarget(fn) ==
    CASE fn \in {"ensureCluster", "ensureECSCluster"} -> ClusterName
      [] fn = "ensureRole" -> ExecutionRoleName
      [] OTHER -> RepositoryName

RaceNext == Resume_Provisioner

\* the project argument of network resolution: repositoryName, per environment
Projects == {RepositoryName, "my-app-staging"}

NetworkFaults ==
    Faults({"DescribeVpcs", "DescribeSubnets", "DescribeSecurityGroups",
            "CreateSecurityGroup", "AuthorizeSecurityGroupIngress"})

Invoke_getNetworkConfig ==
    \E project \in Projects, f \in NetworkFaults :
        Invoke("getNetworkConfig", project, f, NoInput,
               getNetworkConfig(Called, project, f))

Invoke_getNetworkConfiguration ==
    \E project \in Projects, f \in NetworkFaults :
        Invoke("getNetworkConfiguration", project, f, NoInput,
               getNetworkConfiguration(Called, project, f))

\* a network resolution is resumed
Resume_Resolver ==
    \E p \in Racers :
        Resume(p, LAMBDA c : RunResolver(inflight[p].fn, inflight[p].target,
                                         inflight[p].f, c))

NetworkNext ==
    \/ Invoke_getNetworkConfig
    \/ Invoke_getNetworkConfiguration
    \/ Resume_Resolver

Invoke_ensureService ==
    \E td \in DOMAIN cloud.taskDefs, f \in Faults({"DescribeServices", "CreateService"}) :
        Invoke("ensureService", ServiceName, f, [NoInput EXCEPT !.td = td],
               ensureService(Called, ClusterName, ServiceName, td, ProvisionedNetwork, f))

Invoke_createECSService ==
    \E td \in DOMAIN cloud.taskDefs, f \in Faults({"DescribeServices", "CreateService"}) :
        Invoke("createECSService", ServiceName, f, [NoInput EXCEPT !.td = td],
               createECSService(Called, ClusterName, ServiceName, td, ProvisionedNetwork, f))

\* the rollouts that do not settle are followed from the first invocation of
\* a behaviour, with no call rejected
RolloutExplored(rollout, f) == rollout # "STABLE" => (f = "none" /\ started = 0)

Invoke_deployToECS_139 ==
    /\ Len(cloud.taskDefs) < MaxRevisions
    /\ \E rollout \in Rollouts,
          f \in Faults({"GetCallerIdentity", "GetRole", "CreateRole",
                        "ListAttachedRolePolicies", "AttachRolePolicy",
                        "GetAuthorizationToken", "docker login", "docker tag",
                        "docker push",
                        "DescribeServices", "DescribeTaskDefinition",
                        "RegisterTaskDefinition", "UpdateService"}) :
          /\ RolloutExplored(rollout, f)
          /\ Invoke("deployToECS_139", ServiceName, f,
                    [NoInput EXCEPT !.rollout = rollout],
                    deployToECS_139(Called, ClusterName, ServiceName, RepositoryName,
                                    rollout, f))

Invoke_deployToECS_305 ==
    /\ Len(cloud.taskDefs) < MaxRevisions
    /\ \E rollout \in Rollouts,
          f \in Faults({"DescribeServices", "DescribeTaskDefinition",
                        "RegisterTaskDefinition", "UpdateService"}) :
          /\ RolloutExplored(rollout, f)
          /\ Invoke("deployToECS_305", ServiceName, f,
                    [NoInput EXCEPT !.rollout = rollout],
                    deployToECS_305(Called, ClusterName, ServiceName, RepositoryName,
                                    rollout, f))

\* a reconciliation, a deployToECS or a registration is resumed
Resume_Reconciler ==
    \E p \in Racers :
        Resume(p, LAMBDA c : RunReconciler(inflight[p].fn, inflight[p].target,
                                           inflight[p].input, inflight[p].f, c))

ServiceNext ==
    \/ Invoke_ensureService
    \/ Invoke_createECSService
    \/ Invoke_deployToECS_139
    \/ Invoke_deployToECS_305
    \/ Resume_Reconciler

\* taskDef.containerPort as the caller may pass it: absent (3000 then) or another port
ContainerPorts == {0, 8080}

Invoke_registerTaskDefinition ==
    /\ Len(cloud.taskDefs) < MaxRevisions
    /\ \E containerPort \in ContainerPorts, f \in Faults({"RegisterTaskDefinition"}) :
          Invoke("registerTaskDefinition", Family, f,
                 [NoInput EXCEPT !.containerPort = containerPort],
                 registerTaskDefinition(Called, RepositoryName, RepositoryName,
                                        ExecutionRoleName, TaskRoleName,
                                        OrDefault(containerPort, 3000),
                                        "256", "512", "us-east-1", f))

Invoke_registerTaskDefinition_319 ==
    /\ Len(cloud.taskDefs) < MaxRevisions
    /\ \E containerPort \in ContainerPorts, f \in Faults({"RegisterTaskDefinition"}) :
          Invoke("registerTaskDefinition_319", Family, f,
                 [NoInput EXCEPT !.containerPort = containerPort],
                 registerTaskDefinition_319(Called, RepositoryName, RepositoryName,
                                            ExecutionRoleName,
                                            OrDefault(containerPort, 3000),
                                            "256", "512", f))

\* every path of the program that registers a task definition
RegisterNext ==
    \/ Invoke_registerTaskDefinition
    \/ Invoke_registerTaskDefinition_319
    \/ Invoke_deployToECS_139
    \/ Invoke_deployToECS_305
    \/ Resume_Reconciler

\* most task definition revisions the runs of the model leave in the account
MaxRunRevisions == 2

RunFaults ==
    Faults({"GetCallerIdentity", "DescribeRepositories", "CreateRepository",
            "DescribeClusters", "CreateCluster", "GetRole", "CreateRole",
            "AttachRolePolicy", "DescribeVpcs", "DescribeSubnets",
            "DescribeSecurityGroups", "CreateSecurityGroup",
            "AuthorizeSecurityGroupIngress", "RegisterTaskDefinition",
            "DescribeServices", "CreateService"})

Invoke_createResources ==
    /\ Len(cloud.taskDefs) < MaxRunRevisions
    /\ \E containerPort \in ContainerPorts, f \in RunFaults :
          InvokeRun("createResources", ServiceName, f,
                    [NoInput EXCEPT !.containerPort = containerPort],
                    createResources(Called, ClusterName, ServiceName, RepositoryName,
                                    [containerPort |-> containerPort], f))

Invoke_createResources_39 ==
    /\ Len(cloud.taskDefs) < MaxRunRevisions
    /\ \E containerPort \in ContainerPorts, f \in RunFaults :
          InvokeRun("createResources_39", RepositoryServiceName, f,
                    [NoInput EXCEPT !.containerPort = containerPort],
                    createResources_39(Called, ClusterName, RepositoryName,
                                       [containerPort |-> containerPort], f))

\* options.service, global.dryRun, the presence of the Dockerfile and the
\* package.json of the project
DeployOptions ==
    [service : {"", RepositoryServiceName}, dryRun : BOOLEAN, dockerfile : BOOLEAN,
     packageJson : PackageJsons]

\* the run ends before it builds the image
EndsEarly(options) ==
    \/ ~options.dockerfile
    \/ options.dryRun
    \/ options.packageJson \in {"numericName", "malformed"}

DeployFaults ==
    RunFaults \cup DockerCommands \cup
        {"fs.readFile", "docker build", "GetAuthorizationToken",
         "DescribeTaskDefinition", "UpdateService"}

\* the runs of the model: a package.json is told from none where it is read,
\* --service where a service is named, and a call is rejected or a rollout
\* goes wrong in a run that gets to it; a rollout goes wrong in the first
\* run, and the runs that overlap are those of the named project
Explored(options, rollout, f) ==
    /\ ~options.dockerfile => options.packageJson = "absent"
    /\ EndsEarly(options) =>
          /\ options.service = ""
          /\ rollout = "STABLE"
          /\ f \in {"none", "fs.readFile"}
    /\ ~EndsEarly(options) => options.packageJson \in {"absent", "named"}
    /\ f = "fs.readFile" => (options.packageJson = "named" /\ options.dockerfile)
    /\ (f # "none" \/ rollout # "STABLE") => options.packageJson # "absent"
    /\ RolloutExplored(rollout, f)
    /\ options.service # "" => options.packageJson = "named"
    /\ InFlight # {} => (options.service = "" /\ options.packageJson = "named")

Invoke_deployCommand ==
    /\ Len(cloud.taskDefs) + 2 <= MaxRevisions
    /\ \E options \in DeployOptions, rollout \in Rollouts, f \in DeployFaults :
          /\ Explored(options, rollout, f)
          /\ InvokeRun("deployCommand",
                    IF options.service # "" THEN options.service ELSE ServiceName, f,
                    [NoInput EXCEPT !.service = options.service,
                                    !.dryRun = options.dryRun,
                                    !.dockerfile = options.dockerfile,
                                    !.packageJson = options.packageJson,
                                    !.rollout = rollout],
                    deployCommand(Called, options, rollout, f))

\* a createResources run is resumed
Resume_Resources ==
    \E p \in Racers :
        Resume(p, LAMBDA c : RunResources(inflight[p].fn, inflight[p].input,
                                          inflight[p].f, c))

ResourcesNext ==
    \/ Invoke_createResources
    \/ Invoke_createResources_39
    \/ Resume_Resources

\* a deployCommand run is resumed
Resume_deployCommand ==
    \E p \in Racers :
        Resume(p, LAMBDA c : RunCommand(inflight[p].input, inflight[p].f, c))

DeployNext ==
    \/ Invoke_deployCommand
    \/ Resume_deployCommand

(***************************************************************************)
(* Initial states                                                          *)
(***************************************************************************)
\* a role is absent, bare, or carries the policy createResources attaches
RoleStates(roleName) ==
    {[exists |-> FALSE, policies |-> {}],
     [exists |-> TRUE, policies |-> {}],
     [exists |-> TRUE, policies |-> {RolePolicy(roleName)}]}

RoleMaps ==
    {r \in [RoleNames -> UNION {RoleStates(n) : n \in RoleNames}] :
        \A n \in RoleNames : r[n] \in RoleStates(n)}

ProvisionedGroup == [name |-> SgName(RepositoryName), ingress |-> ensureSG_Ports]

\* the definition createResources of createResources.js registers first for the family
FirstTaskDef ==
    TaskDefParams(RepositoryName, RepositoryName, ExecutionRoleName, TaskRoleName,
                  3000, "256", "512", "us-east-1")

\* the definition createResources of part_003 registers first for the family
FirstTaskDef_319 ==
    TaskDefParams_319(RepositoryName, RepositoryName, ExecutionRoleName, 3000, "256", "512")

\* a definition registered for the family outside this program, with a volume
ForeignTaskDef ==
    [FirstTaskDef EXCEPT !.volumes = <<"data">>,
                         !.containerDefinitions[1].image =
                            [uri |-> "my-app-legacy", tag |-> "v1"]]

\* accounts in which any of repository, cluster, roles and security group
\* exists already, with no service
ProvisionClouds ==
    {[repos |-> rs, clusters |-> [n \in {ClusterName} |-> cs], roles |-> ro,
      sgs |-> sg, taskDefs |-> <<>>, services |-> [n \in ServiceNames |-> NoService],
      vpcs |-> <<DefaultVpc>>, subnets |-> DefaultSubnets] :
        rs \in SUBSET {RepositoryName},
        cs \in {"MISSING", "ACTIVE", "INACTIVE"},
        ro \in RoleMaps,
        sg \in {<<>>, <<ProvisionedGroup>>}}

\* provisioned accounts whose service is absent or in any status
ServiceClouds ==
    {[repos |-> {RepositoryName}, clusters |-> [n \in {ClusterName} |-> "ACTIVE"],
      roles |-> ro, sgs |-> <<ProvisionedGroup>>, taskDefs |-> <<td>>,
      services |-> [n \in ServiceNames |-> IF n = ServiceName THEN sv ELSE NoService],
      vpcs |-> <<DefaultVpc>>, subnets |-> DefaultSubnets] :
        ro \in RoleMaps,
        td \in {FirstTaskDef, FirstTaskDef_319, ForeignTaskDef},
        sv \in {NoService} \cup
               [status : ServiceStatus \ {"MISSING"}, taskDefinition : {1},
                desiredCount : {1}, net : {ProvisionedNetwork}]}

\* accounts with or without a default VPC, in which the security group of
\* the project may exist already
NetworkClouds ==
    {[repos |-> {}, clusters |-> [n \in {ClusterName} |-> "MISSING"],
      roles |-> [n \in RoleNames |-> [exists |-> FALSE, policies |-> {}]],
      sgs |-> sg, taskDefs |-> <<>>, services |-> [n \in ServiceNames |-> NoService],
      vpcs |-> vp, subnets |-> IF vp = <<>> THEN <<>> ELSE DefaultSubnets] :
        vp \in {<<>>, <<DefaultVpc>>},
        sg \in {<<>>, <<ProvisionedGroup>>}}

\* accounts in which nothing has been provisioned yet
FreshClouds == {c \in NetworkClouds : c.sgs = <<>>}

\* the account of a project whose service `${sanitizedName}-service` is
\* running already, on the first revision of the family
DeployedClouds ==
    {c \in ServiceClouds : /\ c.services[ServiceName].status = "ACTIVE"
                           /\ c.taskDefs = <<FirstTaskDef>>
                           /\ \A n \in RoleNames : c.roles[n].policies # {}}

NoneStarted ==
    /\ lastInv = NoInv
    /\ prevInv = Summary(NoInv)
    /\ inflight = [p \in Racers |-> Idle]
    /\ started = 0
    /\ atReturn = TRUE

MonIdle ==
    /\ monImpl = "waitForStable"
    /\ monState = "IDLE"
    /\ monPc = "idle"
    /\ clock = 0
    /\ start = 0
    /\ printedEventIds = {}
    /\ svc = NoResponse
    /\ seenBefore = {}
    /\ infoLog = <<>>
    /\ monError = <<>>
    /\ polls = 0
    /\ sleeps = 0
    /\ priorEventIds = {}

\* no invocation is under way and the account is fully provisioned
ProvIdle ==
    /\ cloud \in {c \in ServiceClouds :
                    /\ c.services[ServiceName].status = "ACTIVE"
                    /\ \A n \in RoleNames : c.roles[n].policies # {}}
    /\ NoneStarted

ProvisionInit ==
    /\ MonIdle
    /\ cloud \in ProvisionClouds
    /\ NoneStarted

\* two deployments of one project start the same provisioner
RaceInit ==
    /\ MonIdle
    /\ cloud \in ProvisionClouds
    /\ lastInv = NoInv
    /\ prevInv = Summary(NoInv)
    /\ atReturn = TRUE
    /\ started = 2
    /\ \E fn \in RaceFns :
          inflight = [p \in Racers |->
                        [fn |-> fn, target |-> RaceTarget(fn), f |-> "none",
                         input |-> NoInput, calls |-> <<>>,
                         next |-> RunProvisioner(fn, RaceTarget(fn), "none",
                                                 Called).calls[1].key,
                         run |-> p, alone |-> FALSE]]

FreshInit ==
    /\ MonIdle
    /\ cloud \in FreshClouds
    /\ NoneStarted

\* a project is deployed for the first time, or its service exists already
DeployInit ==
    /\ MonIdle
    /\ cloud \in FreshClouds \cup DeployedClouds
    /\ NoneStarted

NetworkInit ==
    /\ MonIdle
    /\ cloud \in NetworkClouds
    /\ NoneStarted

ServiceInit ==
    /\ MonIdle
    /\ cloud \in ServiceClouds
    /\ NoneStarted

(***************************************************************************)
(* Specifications                                                          *)
(***************************************************************************)
\* the rollout monitor against every sequence of describe responses
MonInit == MonStarted /\ ProvIdle

SpecMonitor == MonInit /\ [][MonNext]_vars

\* one thread of control: the awaited describe call and the timer always complete
SpecMonitorLive == MonInit /\ [][MonNext]_vars /\ WF_vars(MonNext)

\* the provisioners, invoked in any order, each with any single rejected operation
SpecProvision == ProvisionInit /\ [][ProvisionNext]_vars

\* whole runs of createResources on a fresh account, each with any single
\* rejected operation, one after the other
SpecResources == FreshInit /\ [][ResourcesNext]_vars

\* whole runs of deployCommand, on a fresh account or on one that holds the
\* service, one after the other or overlapping
SpecDeploy == DeployInit /\ [][DeployNext]_vars

\* two concurrent invocations of one provisioner, interleaved at every await
SpecRace == RaceInit /\ [][RaceNext]_vars

\* network resolution, repeated in any order for either project
SpecNetwork == NetworkInit /\ [][NetworkNext]_vars

\* service reconciliation and deployToECS with its rollout monitor
SpecService == ServiceInit /\ [][ServiceNext]_vars

\* registrations for one family by registerTaskDefinition and deployToECS, in any order
SpecRegister == ServiceInit /\ [][RegisterNext]_vars

(***************************************************************************)
(* Claims about the rollout monitor                                        *)
(***************************************************************************)
\* the snapshot of the poll just made holds exactly one deployment, PRIMARY, running = desired
SoleSettledPrimary ==
    /\ svc.ok
    /\ Len(svc.deployments) = 1
    /\ svc.deployments[1].status = "PRIMARY"
    /\ svc.deployments[1].runningCount = svc.deployments[1].desiredCount

MentionsFailure(msg) ==
    \/ Contains(msg, <<"was", "stopped">>)
    \/ Contains(msg, <<"failed">>)
    \/ Contains(msg, <<"unable", "to", "place">>)

\* the snapshot of the poll just made carries a failure event no earlier poll of this invocation showed
UnseenFailureEvent ==
    /\ svc.ok
    /\ \E i \in DOMAIN svc.events :
          /\ svc.events[i].id \notin seenBefore
          /\ MentionsFailure(svc.events[i].message)

\* C1: the monitor reports STABLE only on a poll whose snapshot holds a PRIMARY
\* deployment with running = desired that is the only deployment present.
C1_StableOnlyWhenSolePrimarySettled ==
    monState = "STABLE" => SoleSettledPrimary

C1_Witness ==
    /\ monState = "STABLE"
    /\ polls >= 2

\* C2 as stated: a snapshot with exactly one deployment, PRIMARY, running =
\* desired, is reported STABLE on that very poll, whatever else it carries.
C2_Original ==
    SoleSettledPrimary => monState = "STABLE"

\* C2 amended: a snapshot with exactly one deployment, PRIMARY, running =
\* desired, and no not-yet-seen failure event, is reported STABLE on that
\* very poll (no FAILED, no TIMED_OUT, no sleep, no further poll).
C2_StableOnSettledSnapshot ==
    (SoleSettledPrimary /\ ~UnseenFailureEvent) =>
        (monState = "STABLE" /\ monPc = "done")

C2_Witness ==
    /\ SoleSettledPrimary
    /\ svc.events # <<>>
    /\ monState = "STABLE"

\* C3: within one invocation every event id is logged and checked for
\* failure at most once, however often the snapshots repeat it.
C3_EventProcessedAtMostOnce ==
    \A i, j \in DOMAIN infoLog : infoLog[i] = infoLog[j] => i = j

\* a poll of waitForStable whose snapshot repeats an id an earlier poll showed
C3_Witness ==
    /\ monImpl = "waitForStable"
    /\ svc.ok
    /\ \E i \in DOMAIN svc.events : svc.events[i].id \in seenBefore
    /\ infoLog # <<>>

\* C4: a poll whose snapshot carries a not-yet-seen failure event ends the
\* monitor in FAILED on that poll: no sleep, no further poll.
C4_FailsOnFirstSight ==
    UnseenFailureEvent => (monState = "FAILED" /\ monPc = "done")

\* C5: TIMED_OUT is reported exactly when the budget has elapsed on the
\* simulated clock: never below the budget, and no poll or sleep is started
\* once the budget is reached; at the budget the monitor does time out.
C5_Safety ==
    /\ monState = "TIMED_OUT" =>
          (Elapsed = timeout /\ sleeps * pollInterval = timeout /\ polls = sleeps)
    /\ monPc = "sleep" => Elapsed < timeout
    /\ (monPc = "done" /\ monState # "TIMED_OUT") => Elapsed < timeout
    /\ Elapsed <= timeout

C5_TimedOutExactlyAtBudget ==
    /\ []C5_Safety
    /\ [][Elapsed >= timeout => (polls' = polls /\ sleeps' = sleeps)]_vars
    /\ ((monState = "POLLING" /\ Elapsed >= timeout) ~> (monState = "TIMED_OUT"))

C5_Witness ==
    /\ monState = "TIMED_OUT"
    /\ monImpl = "waitForStable"

\* C6: every invocation leaves POLLING and ends in exactly one of STABLE,
\* FAILED, TIMED_OUT (a thrown describe call aside); a terminal state is
\* final and no poll follows it.
C6_MonitorTerminates ==
    /\ <>(monState \in {"STABLE", "FAILED", "TIMED_OUT", "ERROR"})
    /\ [](monState = "ERROR" => ~svc.ok)
    /\ [](monPc = "done" <=> monState # "POLLING")
    /\ [][monState # "POLLING" => (monState' = monState /\ polls' = polls)]_vars

C6_Witness ==
    /\ monState = "TIMED_OUT"
    /\ monImpl = "waitForDeployment"
    /\ printedEventIds = {}

(***************************************************************************)
(* Claims about the provisioners                                           *)
(***************************************************************************)
\* lastInv has just returned or thrown: the account is as it left it
AtReturn == atReturn

IdempotentProvisioners == {"ensureECR", "ensureCluster", "ensureRole", "ensureSG"}

Provisioners ==
    IdempotentProvisioners \cup
    {"ensureECRRepository", "ensureECSCluster", "ensureExecutionRole_174",
     "ensureSecurityGroup", "ensureExecutionRole_58", "ensureTaskRole"}

\* lastInv is the second of two successive invocations of one provisioner
\* with one name, the first of which returned
InvokedTwice ==
    /\ lastInv.fn \in IdempotentProvisioners
    /\ prevInv.alone
    /\ lastInv.alone
    /\ prevInv.fn = lastInv.fn
    /\ prevInv.target = lastInv.target
    /\ prevInv.ok

\* the control plane answered every call of the latest invocation as the
\* state of the account has it: it rejected none
NoCallRejected ==
    \A i \in DOMAIN lastInv.calls : lastInv.calls[i].err # RemoteCallFailed

\* the two invocations issued at most one create call together, the second
\* issued no mutating call and returned the identifier the first returned
SecondReuses ==
    /\ lastInv.ok
    /\ prevInv.creates + CountOps(lastInv.calls, CreateOps) <= 1
    /\ CountOps(lastInv.calls, MutatingOps) = 0
    /\ lastInv.value = prevInv.value

LookupRejected ==
    \E i \in DOMAIN lastInv.calls :
        /\ lastInv.calls[i].op \in LookupOps
        /\ lastInv.calls[i].err \notin NotFoundErrors \cup {""}

\* C8: in every provisioner a lookup error other than not-found propagates
\* unmodified and no create call is issued.
C8_LookupErrorPropagates ==
    (lastInv.fn \in Provisioners /\ LookupRejected) =>
        /\ ~lastInv.ok
        /\ lastInv.error = RemoteCallFailed
        /\ CountOps(lastInv.calls, CreateOps) = 0

(***************************************************************************)
(* Claims about service reconciliation                                     *)
(***************************************************************************)
ServiceReconcilers ==
    {"ensureService", "createECSService", "deployToECS_139", "deployToECS_305"}

\* the DescribeServices calls of the latest invocation that were answered
\* without error
DescribedAt ==
    {i \in DOMAIN lastInv.calls :
        lastInv.calls[i].op = "DescribeServices" /\ lastInv.calls[i].err = ""}

\* the status the first of them answered the latest invocation with (the
\* later ones are the polls of its monitor), "" if there is none
DescribedStatus ==
    IF DescribedAt # {}
    THEN lastInv.calls[CHOOSE i \in DescribedAt : \A j \in DescribedAt : i <= j].out
    ELSE ""

\* C9: a service that exists but is not ACTIVE makes reconciliation fail,
\* and neither CreateService nor UpdateService is issued for it.
C9_InactiveServiceIsFatal ==
    (lastInv.fn \in ServiceReconcilers /\ DescribedStatus \in {"DRAINING", "INACTIVE"}) =>
        /\ ~lastInv.ok
        /\ CountOps(lastInv.calls, {"CreateService", "UpdateService"}) = 0

\* the control plane rejected a call of the latest invocation
CallRejected ==
    \E i \in DOMAIN lastInv.calls : lastInv.calls[i].err = RemoteCallFailed

UpdateCalls == {i \in DOMAIN lastInv.calls : lastInv.calls[i].op = "UpdateService"}

\* invocation p has a call answered in the step
Answered(p) ==
    /\ inflight[p] # Idle
    /\ inflight'[p] = Idle \/ Len(inflight'[p].calls) > Len(inflight[p].calls)

\* the call of invocation p that is answered in the step
AnsweredCall(p) ==
    LET n == Len(inflight[p].calls) + 1
    IN  IF inflight'[p] = Idle THEN lastInv'.calls[n] ELSE inflight'[p].calls[n]

\* the calls of the latest invocation that its rollout monitor issued
MonitorCalls ==
    {i \in DOMAIN lastInv.calls :
        \E k \in 1..(timeout \div pollInterval) : lastInv.calls[i].key.stage = PollStage(k)}

\* the UpdateService call of invocation p is answered without error in the step
UpdateAnswered(p) ==
    /\ Answered(p)
    /\ AnsweredCall(p).op = "UpdateService"
    /\ AnsweredCall(p).err = ""

\* C10: for an ACTIVE service deployToECS issues exactly one UpdateService
\* call, as its last call before the rollout monitor is called, with
\* forceNewDeployment and the revision it registered in this invocation,
\* also when that revision has the content of the current one; when the
\* call is answered the service is on that revision, and the monitor polls
\* only after it.
C10_UpdateToNewRevisionForced ==
    /\ []((/\ AtReturn
           /\ lastInv.fn \in {"deployToECS_139", "deployToECS_305"}
           /\ DescribedStatus = "ACTIVE") =>
              /\ Cardinality(UpdateCalls) <= 1
              /\ ~CallRejected => lastInv.monitor
              /\ lastInv.ok => lastInv.monitor
              /\ ~lastInv.monitor => MonitorCalls = {}
              /\ lastInv.monitor =>
                    LET u == Len(lastInv.calls) - Cardinality(MonitorCalls) IN
                    /\ MonitorCalls = (u + 1)..Len(lastInv.calls)
                    /\ MonitorCalls # {}
                    /\ UpdateCalls = {u}
                    /\ lastInv.calls[u].err = ""
                    /\ lastInv.calls[u].force
                    /\ \E r \in 1..(u - 1) :
                          /\ lastInv.calls[r].op = "RegisterTaskDefinition"
                          /\ lastInv.calls[r].err = ""
                          /\ lastInv.calls[r].td = lastInv.calls[u].td
                    /\ lastInv.alone =>
                          /\ lastInv.calls[u].td = Len(cloud.taskDefs)
                          /\ cloud.services[ServiceName].taskDefinition =
                                lastInv.calls[u].td)
    /\ [][\A p \in Racers :
            UpdateAnswered(p) =>
                /\ AnsweredCall(p).force
                /\ cloud'.services[AnsweredCall(p).target].taskDefinition =
                      AnsweredCall(p).td]_vars

\* the registered revision repeats the content of the one it replaces, and
\* the monitor has polled the rollout to its end
C10_Witness ==
    /\ lastInv.fn = "deployToECS_305"
    /\ lastInv.monitor
    /\ lastInv.ok
    /\ Cardinality(MonitorCalls) = 5
    /\ Len(cloud.taskDefs) >= 2
    /\ cloud.taskDefs[Len(cloud.taskDefs)] = cloud.taskDefs[Len(cloud.taskDefs) - 1]

(***************************************************************************)
(* Claims about the role provisioners                                      *)
(***************************************************************************)
RoleProvisioners ==
    {"ensureRole", "ensureExecutionRole_174", "ensureExecutionRole_58", "ensureTaskRole"}

\* C14: whenever a role provisioner returns, the role exists and carries the
\* policy the provisioner is responsible for, whether the role was created by
\* this invocation or existed before it, with or without the policy.
C14_ReturnedRoleHasPolicy ==
    (AtReturn /\ lastInv.fn \in RoleProvisioners /\ lastInv.ok) =>
        /\ cloud.roles[lastInv.target].exists
        /\ RolePolicy(lastInv.target) \in cloud.roles[lastInv.target].policies

(***************************************************************************)
(* Claims about the registered task definition                             *)
(***************************************************************************)
\* the revision the latest invocation read as the current one, 0 if it read none
DescribedRevision ==
    IF \E i \in DOMAIN lastInv.calls :
          lastInv.calls[i].op = "DescribeTaskDefinition" /\ lastInv.calls[i].err = ""
    THEN LET i == CHOOSE i \in DOMAIN lastInv.calls :
                     lastInv.calls[i].op = "DescribeTaskDefinition" /\ lastInv.calls[i].err = ""
         IN  lastInv.calls[i].td
    ELSE 0

\* the revision the latest invocation registered, 0 if it registered none
RegisteredRevision ==
    IF \E i \in DOMAIN lastInv.calls :
          lastInv.calls[i].op = "RegisterTaskDefinition" /\ lastInv.calls[i].err = ""
    THEN LET i == CHOOSE i \in DOMAIN lastInv.calls :
                     lastInv.calls[i].op = "RegisterTaskDefinition" /\ lastInv.calls[i].err = ""
         IN  lastInv.calls[i].td
    ELSE 0

\* C20: the definition deployToECS registers equals the previous one in
\* every field, except that each container's image is the new image.
C20_RegisteredEqualsPreviousButImage ==
    (lastInv.fn \in {"deployToECS_139", "deployToECS_305"} /\ RegisteredRevision # 0) =>
        cloud.taskDefs[RegisteredRevision] =
            [cloud.taskDefs[DescribedRevision] EXCEPT
                !.containerDefinitions = WithImage(@, RepositoryName)]

(***************************************************************************)
(* Claims about network resolution                                         *)
(***************************************************************************)
NetworkResolvers == {"getNetworkConfig", "getNetworkConfiguration"}

\* the default-VPC lookup of the latest invocation answered an empty list
NoDefaultVpcAnswered ==
    /\ lastInv.calls # <<>>
    /\ lastInv.calls[1].op = "DescribeVpcs"
    /\ lastInv.calls[1].err = ""
    /\ lastInv.calls[1].out = "none"

\* C17: without a default VPC network resolution fails with the dedicated
\* no-default-network error after the one DescribeVpcs call: no retry, no
\* subnet lookup, no security-group lookup or creation.
C17_NoDefaultNetworkIsFatal ==
    (lastInv.fn \in NetworkResolvers /\ NoDefaultVpcAnswered) =>
        /\ ~lastInv.ok
        /\ lastInv.error = NoDefaultNetwork
        /\ Len(lastInv.calls) = 1

\* the groups of the account that carry the name derived from project
GroupsNamed(c, project) == {i \in DOMAIN c.sgs : c.sgs[i].name = SgName(project)}

\* the group the security-group lookup of the latest invocation found, 0 if
\* it found none or was rejected
FoundGroup ==
    IF \E i \in DOMAIN lastInv.calls :
          lastInv.calls[i].op = "DescribeSecurityGroups" /\ lastInv.calls[i].err = ""
    THEN LET i == CHOOSE i \in DOMAIN lastInv.calls :
                     /\ lastInv.calls[i].op = "DescribeSecurityGroups"
                     /\ lastInv.calls[i].err = ""
         IN  lastInv.calls[i].reply.out
    ELSE 0

\* C18: the group name is SgName of the project alone; no account ever holds
\* two groups of one name, and a resolution that finds the project's group
\* creates none, issues no create call and hands back the group it found.
C18_GroupReusedNeverDuplicated ==
    /\ \A project \in Projects : Cardinality(GroupsNamed(cloud, project)) <= 1
    /\ (lastInv.fn \in NetworkResolvers /\ FoundGroup # 0) =>
          /\ cloud.sgs[FoundGroup].name = SgName(lastInv.target)
          /\ CountOps(lastInv.calls, {"CreateSecurityGroup",
                                       "AuthorizeSecurityGroupIngress"}) = 0
          /\ lastInv.ok
          /\ lastInv.value.securityGroups = <<GroupId(FoundGroup)>>

\* a second resolution for a project found the group the first one created,
\* while the group of the other project exists beside it
C18_Witness ==
    /\ lastInv.fn \in NetworkResolvers
    /\ FoundGroup # 0
    /\ prevInv.fn \in NetworkResolvers
    /\ prevInv.target = lastInv.target
    /\ prevInv.creates = 1
    /\ lastInv.ok
    /\ CountOps(lastInv.calls, {"CreateSecurityGroup"}) = 0
    /\ Len(cloud.sgs) = 2

(***************************************************************************)
(* Claims about concurrent deployments                                     *)
(***************************************************************************)
\* both invocations have ended and each had gone on to its create call:
\* its lookup had reported the resource absent
BothMissed ==
    /\ InFlight = {}
    /\ prevInv.fn = lastInv.fn
    /\ ~lastInv.alone
    /\ prevInv.creates >= 1
    /\ CountOps(lastInv.calls, CreateOps) >= 1

RacedResourceExistsOnce ==
    CASE lastInv.fn \in {"ensureECR", "ensureECRRepository"} -> RepositoryName \in cloud.repos
      [] lastInv.fn \in {"ensureCluster", "ensureECSCluster"} ->
            cloud.clusters[ClusterName] = "ACTIVE"
      [] lastInv.fn \in {"ensureSG", "ensureSecurityGroup"} ->
            Cardinality(GroupsNamed(cloud, RepositoryName)) = 1
      [] lastInv.fn = "ensureRole" -> cloud.roles[ExecutionRoleName].exists
      [] OTHER -> FALSE

\* C15: when two concurrent invocations of a provisioner both find the
\* resource absent, the resource is created once and both invocations
\* return, with the same identifier.
C15_ConcurrentCreateOnce ==
    (lastInv.fn \in RaceFns /\ BothMissed) =>
        /\ lastInv.ok
        /\ prevInv.ok
        /\ lastInv.value = prevInv.value
        /\ RacedResourceExistsOnce

(***************************************************************************)
(* Claims about whole runs                                                 *)
(***************************************************************************)
ResourceRuns == {"createResources", "createResources_39"}

CallsOf(op) == {i \in DOMAIN lastInv.calls : lastInv.calls[i].op = op}

AnsweredCallsOf(op) == {i \in CallsOf(op) : lastInv.calls[i].err = ""}

\* the subnets the subnet lookup of the latest run answered
ResolvedSubnets ==
    LET i == CHOOSE i \in AnsweredCallsOf("DescribeSubnets") : TRUE
    IN  lastInv.calls[i].net.subnets

\* C11: when the service lookup of a createResources run answers that the
\* service does not exist, the run issues exactly one CreateService call: in
\* the cluster it ensured, with the revision it registered, desired count 1,
\* the subnets it looked up, the security group it ensured and a public IP.
C11_CreateServiceAsResolved ==
    (AtReturn /\ lastInv.fn \in ResourceRuns /\ DescribedStatus = "MISSING") =>
        /\ Cardinality(CallsOf("CreateService")) = 1
        /\ LET call == lastInv.calls[CHOOSE i \in CallsOf("CreateService") : TRUE]
           IN  /\ call.cluster = ClusterName
               /\ cloud.clusters[ClusterName] = "ACTIVE"
               /\ call.target = lastInv.target
               /\ RegisteredRevision # 0
               /\ call.td = RegisteredRevision
               /\ call.count = 1
               /\ call.net = [subnets |-> ResolvedSubnets,
                              securityGroups |->
                                 <<GroupId(FindGroup(cloud, SgName(RepositoryName)))>>,
                              assignPublicIp |-> "ENABLED"]

\* a run on a fresh account created the service with one task
C11_Witness ==
    /\ lastInv.fn = "createResources"
    /\ lastInv.ok
    /\ DescribedStatus = "MISSING"
    /\ cloud.services[ServiceName].status = "ACTIVE"
    /\ cloud.services[ServiceName].net.subnets # <<>>
    /\ CountOps(lastInv.calls, {"CreateSecurityGroup"}) = 1

\* C12: in a deployCommand run every RegisterTaskDefinition call is issued
\* after the image push has completed.
C12_PushBeforeRegistration ==
    lastInv.fn = "deployCommand" =>
        \A i \in CallsOf("RegisterTaskDefinition") :
            \E j \in AnsweredCallsOf("docker push") : j < i

CompensatingOps ==
    {"DeleteRepository", "DeleteCluster", "DeleteRole", "DetachRolePolicy",
     "DeleteSecurityGroup", "RevokeSecurityGroupIngress", "DeregisterTaskDefinition",
     "DeleteService"}

\* the resource a create call of the latest run made is still there
CreatedRemains(call) ==
    CASE call.op = "CreateRepository" -> call.target \in cloud.repos
      [] call.op = "CreateCluster" -> cloud.clusters[call.target] = "ACTIVE"
      [] call.op = "CreateRole" -> cloud.roles[call.target].exists
      [] call.op = "CreateSecurityGroup" -> GroupsNamed(cloud, call.target) # {}
      [] call.op = "CreateService" -> cloud.services[call.target].status = "ACTIVE"
      [] OTHER -> TRUE

\* C13: in a deployCommand run a stage that fails is the last stage that
\* runs and the run ends in failure; no deleting or detaching call is ever
\* issued and what the run created stays in the account.
C13_AbortWithoutRollback ==
    (AtReturn /\ lastInv.fn = "deployCommand") =>
        /\ \A i \in DOMAIN lastInv.stages :
              ~lastInv.stages[i].ok =>
                  /\ i = Len(lastInv.stages)
                  /\ ~lastInv.ok
                  /\ lastInv.value = ExitCode(1)
        /\ CountOps(lastInv.calls, CompensatingOps) = 0
        /\ \A i \in DOMAIN lastInv.calls :
              (lastInv.calls[i].op \in CreateOps /\ lastInv.calls[i].err = "") =>
                  CreatedRemains(lastInv.calls[i])

\* the push failed after createResources had created the service
C13_Witness ==
    /\ lastInv.fn = "deployCommand"
    /\ ~lastInv.ok
    /\ lastInv.error = CommandFailed
    /\ AnsweredCallsOf("CreateService") # {}
    /\ CallsOf("docker push") # {}
    /\ lastInv.stages[Len(lastInv.stages)].name = "pushToECR"

\* what a createResources run provisions, apart from the revisions registered
Shape(c, fn) ==
    [repository |-> RepositoryName \in c.repos,
     cluster |-> c.clusters[ClusterName],
     executionRole |-> c.roles[ExecutionRoleName],
     taskRole |-> IF fn = "createResources" THEN c.roles[TaskRoleName]
                  ELSE [exists |-> FALSE, policies |-> {}],
     groups |-> {c.sgs[i].ingress : i \in GroupsNamed(c, RepositoryName)},
     service |-> LET sv == c.services[IF fn = "createResources" THEN ServiceName
                                      ELSE RepositoryServiceName]
                 IN  [status |-> sv.status, desiredCount |-> sv.desiredCount,
                      net |-> sv.net]]

\* the fresh account with a default VPC
FreshCloud == CHOOSE c \in FreshClouds : c.vpcs # <<>>

\* the account after a run on FreshCloud in which no call is rejected
NeverFailed(fn) ==
    IF fn = "createResources"
    THEN createResources(FreshCloud, ClusterName, ServiceName, RepositoryName,
                         [containerPort |-> 0], "none").cloud
    ELSE createResources_39(FreshCloud, ClusterName, RepositoryName,
                            [containerPort |-> 0], "none").cloud

\* C16: a createResources run that completes with no call rejected leaves
\* repository, cluster, roles with their policies, security group with its
\* rules and service as a run on a fresh account does, whatever earlier runs
\* were aborted.
C16_RerunRepairs ==
    (AtReturn /\ lastInv.fn \in ResourceRuns /\ lastInv.ok /\ ~CallRejected) =>
        Shape(cloud, lastInv.fn) = Shape(NeverFailed(lastInv.fn), lastInv.fn)

\* the container ports a task definition maps
MappedPorts(td) ==
    UNION {{td.containerDefinitions[i].portMappings[j].containerPort :
                j \in DOMAIN td.containerDefinitions[i].portMappings} :
           i \in DOMAIN td.containerDefinitions}

\* C19: the rules authorized for a security group the run created open
\* exactly 80, 443 and the container ports of the task definition the run
\* registered.
C19_RulesMatchContainerPort ==
    (/\ lastInv.fn \in ResourceRuns
     /\ AnsweredCallsOf("CreateSecurityGroup") # {}
     /\ AnsweredCallsOf("AuthorizeSecurityGroupIngress") # {}
     /\ RegisteredRevision # 0) =>
        \A i \in AnsweredCallsOf("AuthorizeSecurityGroupIngress") :
            lastInv.calls[i].ports =
                {80, 443} \cup MappedPorts(cloud.taskDefs[RegisteredRevision])

(***************************************************************************)
(* Claims about the cluster provisioners                                   *)
(***************************************************************************)
ClusterProvisioners == {"ensureCluster", "ensureECSCluster"}

\* the status the cluster lookup of the latest invocation answered, "" if it was rejected
LookedUpClusterStatus ==
    IF lastInv.calls # <<>> /\ lastInv.calls[1].op = "DescribeClusters"
                           /\ lastInv.calls[1].err = ""
    THEN lastInv.calls[1].out
    ELSE ""

\* C24: when the cluster lookup answers, ensureCluster and ensureECSCluster
\* return without a CreateCluster call exactly when the cluster it lists is
\* ACTIVE (ensureCluster then returns its ARN); for a missing cluster, or one
\* in another status, they issue one CreateCluster call.
C24_ClusterReusedIffActive ==
    (lastInv.fn \in ClusterProvisioners /\ LookedUpClusterStatus # "") =>
        /\ (LookedUpClusterStatus = "ACTIVE") <=>
              (lastInv.ok /\ CountOps(lastInv.calls, {"CreateCluster"}) = 0)
        /\ LookedUpClusterStatus # "ACTIVE" =>
              (Len(lastInv.calls) = 2 /\ lastInv.calls[2].op = "CreateCluster")
        /\ (LookedUpClusterStatus = "ACTIVE" /\ lastInv.fn = "ensureCluster") =>
              lastInv.value = ClusterArn(lastInv.target)

\* an INACTIVE cluster was looked up and created again
C24_Witness ==
    /\ lastInv.fn = "ensureECSCluster"
    /\ LookedUpClusterStatus = "INACTIVE"
    /\ lastInv.ok
    /\ CountOps(lastInv.calls, {"CreateCluster"}) = 1
    /\ cloud.clusters[ClusterName] = "ACTIVE"

(***************************************************************************)
(* Claims about failures of the describe call in the monitor               *)
(***************************************************************************)
\* C22: a poll whose DescribeServices call fails ends the monitor on that
\* poll with the error of the call: the monitor does not sleep, poll again
\* or go on to a timeout.
C22_PollFailureEndsMonitor ==
    [][(polls' # polls /\ ~svc'.ok) =>
          (monState' = "ERROR" /\ monPc' = "done" /\ monError' = <<"RemoteCallFailed">>)]_vars

(***************************************************************************)
(* Claims about task definition revisions                                  *)
(***************************************************************************)
\* the revisions the RegisterTaskDefinition calls of an invocation returned, in call order
ReturnedRevisions(calls) ==
    LET answered == SelectSeq(calls, LAMBDA call :
                        call.op = "RegisterTaskDefinition" /\ call.err = "")
    IN  [i \in DOMAIN answered |-> answered[i].td]

TaskSpecRegistrars ==
    {"registerTaskDefinition", "registerTaskDefinition_319", "deployToECS_139",
     "deployToECS_305"}

\* the latest invocation registered a revision and went on without failure
RegistrarReturned == lastInv.fn \in TaskSpecRegistrars /\ lastInv.ok

\* the registrars that hand the identifier of the revision back to their
\* caller; deployToECS of part_002:139 has no return statement
IdentifierReturned(fn) == fn \in TaskSpecRegistrars \ {"deployToECS_139"}

\* the invocation before the latest did
RegistrarReturnedBefore == prevInv.fn \in TaskSpecRegistrars /\ prevInv.ok

\* the revisions the UpdateService calls of the latest invocation name
UpdatedTo ==
    {lastInv.calls[i].td : i \in CallsOf("UpdateService")}

\* C21: a registration adds a revision to the family and leaves the earlier
\* revisions as they were, and the number the registrar reads from it is
\* larger than every revision that existed before; the identifier a
\* registrar returns (and updates the service to) is that of the revision
\* its own registration made; successive registrars return increasing
\* revisions and no two return the same identifier.
C21_RevisionsOnlyGrow ==
    /\ [][LET old == cloud.taskDefs
              new == cloud'.taskDefs
              registered == \E p \in Racers :
                               /\ Answered(p)
                               /\ AnsweredCall(p).op = "RegisterTaskDefinition"
                               /\ AnsweredCall(p).err = ""
          IN  /\ SubSeq(new, 1, Len(old)) = old
              /\ Len(new) = Len(old) + (IF registered THEN 1 ELSE 0)
              /\ \A p \in Racers :
                    (/\ Answered(p)
                     /\ AnsweredCall(p).op = "RegisterTaskDefinition"
                     /\ AnsweredCall(p).err = "") => AnsweredCall(p).td = Len(old) + 1]_vars
    /\ [](RegistrarReturned =>
            /\ Len(ReturnedRevisions(lastInv.calls)) = 1
            /\ lastInv.value =
                  IF IdentifierReturned(lastInv.fn)
                  THEN TaskDefinitionArn(Family, ReturnedRevisions(lastInv.calls)[1])
                  ELSE Undefined
            /\ ReturnedRevisions(lastInv.calls)[1] \in DOMAIN cloud.taskDefs
            /\ UpdatedTo \subseteq {ReturnedRevisions(lastInv.calls)[1]}
            /\ lastInv.fn \in {"deployToECS_139", "deployToECS_305"} =>
                  UpdatedTo = {ReturnedRevisions(lastInv.calls)[1]})
    /\ []((/\ RegistrarReturned
           /\ RegistrarReturnedBefore
           /\ IdentifierReturned(prevInv.fn)) =>
            /\ IdentifierReturned(lastInv.fn) => lastInv.value # prevInv.value
            /\ ReturnedRevisions(lastInv.calls)[1] # prevInv.value.n
            /\ lastInv.alone => ReturnedRevisions(lastInv.calls)[1] > prevInv.value.n)

\* a third revision was registered by deployToECS after registerTaskDefinition made the second
C21_Witness ==
    /\ lastInv.fn = "deployToECS_305"
    /\ prevInv.fn = "registerTaskDefinition"
    /\ prevInv.ok
    /\ lastInv.ok
    /\ prevInv.value = TaskDefinitionArn(Family, 2)
    /\ lastInv.value = TaskDefinitionArn(Family, 3)
    /\ ReturnedRevisions(lastInv.calls) = <<3>>
    /\ Len(cloud.taskDefs) = 3

(***************************************************************************)
(* Claims about the event loop of the monitor                              *)
(***************************************************************************)
\* C26: the monitor ends in FAILED only on an event of the rollout it
\* monitors: the event whose message it fails with was not in the service's
\* event list when the update was issued.
C26_FailsOnlyOnOwnEvents ==
    monState = "FAILED" =>
        (infoLog # <<>> /\ infoLog[Len(infoLog)] \notin priorEventIds)

\* the events of the latest snapshot that no earlier poll showed, in list order
UnseenEvents == SelectSeq(svc.events, LAMBDA ev : ev.id \notin seenBefore)

\* position of the first event of evs whose message holds a failure phrase, 0 if none
FirstFailure(evs) ==
    IF \E i \in DOMAIN evs : MentionsFailure(evs[i].message)
    THEN CHOOSE i \in DOMAIN evs :
            /\ MentionsFailure(evs[i].message)
            /\ \A j \in 1..(i - 1) : ~MentionsFailure(evs[j].message)
    ELSE 0

\* the ids the latest poll logged and checked, in order
LoggedThisPoll == SelectSeq(infoLog, LAMBDA id : id \notin seenBefore)

\* C30: waitForStable logs and checks the not-yet-seen events of a snapshot
\* in list order up to and including the first one with a failure phrase; it
\* then fails with that event's message, and no later event of the list is
\* logged, checked or marked as seen.
C30_StopsAtFirstFailureEvent ==
    (monImpl = "waitForStable" /\ svc.ok) =>
        LET k == FirstFailure(UnseenEvents)
            n == IF k = 0 THEN Len(UnseenEvents) ELSE k
        IN  /\ LoggedThisPoll = [i \in 1..n |-> UnseenEvents[i].id]
            /\ printedEventIds = seenBefore \cup {UnseenEvents[i].id : i \in 1..n}
            /\ k # 0 => /\ monState = "FAILED"
                        /\ monError = <<"Deployment", "failed:">> \o UnseenEvents[k].message
            /\ k = 0 => monState # "FAILED"

\* two new events in one snapshot, the first of them a failure: the second is skipped
C30_Witness ==
    /\ monImpl = "waitForStable"
    /\ svc.ok
    /\ Len(UnseenEvents) >= 2
    /\ FirstFailure(UnseenEvents) = 1
    /\ monState = "FAILED"
    /\ Len(LoggedThisPoll) = 1

(***************************************************************************)
(* Claims about deployCommand                                              *)
(***************************************************************************)
\* the run reached deploy.js:94: logger.success and the summary table
SummaryEmitted == lastInv.value.kind = "summary"

\* no step of the latest run was made to fail: no remote call was rejected,
\* the image was built and pushed (a not-found answer to a lookup is no failure)
NothingFailed ==
    \A i \in DOMAIN lastInv.calls :
        /\ lastInv.calls[i].err # RemoteCallFailed
        /\ lastInv.calls[i].op \in {"docker build"} \cup DockerCommands =>
              lastInv.calls[i].err = ""

\* the latest run found neither repository nor cluster: the account was fresh
OnFreshAccount ==
    /\ AnsweredCallsOf("CreateRepository") # {}
    /\ AnsweredCallsOf("CreateCluster") # {}

\* C23: a first deployCommand run on an account with none of the resources
\* (and a default VPC), with a Dockerfile, no dry run, no call failing and a
\* rollout that settles, creates repository, cluster, execution role, security
\* group, task definition and the service with desired count 1, and ends
\* with the success summary.
C23_FirstDeploymentSucceeds ==
    (/\ AtReturn
     /\ lastInv.fn = "deployCommand"
     /\ lastInv.run = 1
     /\ lastInv.alone
     /\ OnFreshAccount
     /\ cloud.vpcs # <<>>
     /\ lastInv.input.dockerfile
     /\ ~lastInv.input.dryRun
     /\ lastInv.input.rollout = "STABLE"
     /\ NothingFailed) =>
        /\ RepositoryName \in cloud.repos
        /\ cloud.clusters[ClusterName] = "ACTIVE"
        /\ cloud.roles[ExecutionRoleName].exists
        /\ GroupsNamed(cloud, RepositoryName) # {}
        /\ cloud.taskDefs # <<>>
        /\ cloud.services[lastInv.target].status = "ACTIVE"
        /\ cloud.services[lastInv.target].desiredCount = 1
        /\ lastInv.ok
        /\ SummaryEmitted

\* the call the latest run ended on is a poll of its monitor, answered with
\* a PRIMARY deployment that runs as many tasks as desired and no other
MonitorReportedStable ==
    /\ lastInv.monitor
    /\ lastInv.stages # <<>>
    /\ lastInv.stages[Len(lastInv.stages)].name = "deployToECS"
    /\ lastInv.calls # <<>>
    /\ LET last == lastInv.calls[Len(lastInv.calls)]
       IN  /\ last.op = "DescribeServices"
           /\ last.key.stage # "deployToECS"
           /\ last.err = ""
           /\ last.reply.out.ok
           /\ waitForDeployment_Stable(last.reply.out.deployments)

\* C25: deployCommand emits the success summary only in a run all of whose
\* stages succeeded and whose monitor was called and ended on a poll that
\* found the rollout stable; a run with a failed stage, and a run whose
\* monitor did not find the rollout stable, emits no summary and exits with
\* code 1.
C25_SummaryOnlyAfterStable ==
    lastInv.fn = "deployCommand" =>
        /\ SummaryEmitted =>
              /\ lastInv.ok
              /\ lastInv.monitor
              /\ MonitorReportedStable
              /\ \A i \in DOMAIN lastInv.stages : lastInv.stages[i].ok
        /\ ((\E i \in DOMAIN lastInv.stages : ~lastInv.stages[i].ok)
              \/ (lastInv.monitor /\ ~MonitorReportedStable)) =>
              /\ ~SummaryEmitted
              /\ ~lastInv.ok
              /\ lastInv.value = ExitCode(1)

\* the monitor polled and slept through its whole budget and the run failed
\* with the timeout
C25_Witness ==
    /\ lastInv.fn = "deployCommand"
    /\ lastInv.monitor
    /\ Cardinality(CallsOf("setTimeout")) = timeout \div pollInterval
    /\ ~MonitorReportedStable
    /\ lastInv.error = "Deployment timed out"
    /\ ~lastInv.ok

ServiceOps == {"DescribeServices", "CreateService", "UpdateService"}

\* C27: all the calls of one deployCommand run that name a service name the
\* same one: deployToECS describes, updates and polls the service that
\* createResources ensured.
C27_OneServicePerRun ==
    lastInv.fn = "deployCommand" =>
        \A i, j \in DOMAIN lastInv.calls :
            (lastInv.calls[i].op \in ServiceOps /\ lastInv.calls[j].op \in ServiceOps) =>
                lastInv.calls[i].target = lastInv.calls[j].target

\* C28: a deployCommand run that gets as far as the monitor has registered
\* exactly one revision, and the service is bound to it.
C28_OneRevisionPerRun ==
    (AtReturn /\ lastInv.fn = "deployCommand" /\ lastInv.monitor) =>
        /\ Len(ReturnedRevisions(lastInv.calls)) = 1
        /\ cloud.services[lastInv.target].taskDefinition =
              ReturnedRevisions(lastInv.calls)[1]

\* the package.json of the project, if it has one, was read and names the project
ProjectNamed ==
    \/ lastInv.input.packageJson = "absent"
    \/ /\ lastInv.input.packageJson \in {"named", "unnamed"}
       /\ \A i \in CallsOf("fs.readFile") : lastInv.calls[i].err = ""

CallKeysDistinct ==
    \A i, j \in DOMAIN lastInv.calls :
        lastInv.calls[i].key = lastInv.calls[j].key => i = j

TypeOK ==
    /\ monState \in {"IDLE", "POLLING", "STABLE", "FAILED", "TIMED_OUT", "ERROR"}
    /\ monPc \in {"idle", "loop", "sleep", "done"}
    /\ printedEventIds \subseteq EventIds
    /\ svc \in Responses
    /\ lastInv.fn \in Provisioners \cup ServiceReconcilers \cup NetworkResolvers \cup
                      {"createResources", "createResources_39", "deployCommand",
                       "registerTaskDefinition", "registerTaskDefinition_319", "none"}
    /\ \A p \in Racers : inflight[p].fn # "none" => inflight[p].next # NoKey
    /\ started \in 0..(MaxInvocations + MaxRuns)
    /\ atReturn \in BOOLEAN

====
